---------------------------- MODULE Spec2Model ----------------------------
(***************************************************************************)
(* Chowkidaar NVR: detection / event pipeline.                             *)
(*                                                                         *)
(* The module models these parts of backend/app:                           *)
(*   - DetectionService._vlm_safety_scan   (SpecScan)                      *)
(*   - DetectionService._process_detections (SpecCooldown)                 *)
(*   - DetectionService start/stop/_main_loop/_detection_loop (SpecOrch)   *)
(*   - event insert and _generate_summary_and_notify (SpecEnrich)          *)
(*   - RTSPStreamHandler (SpecStream, SpecCapture)                         *)
(*   - StreamManager (SpecManager)                                         *)
(*   - the YOLO / OWLv2 detector singletons (SpecDetector)                 *)
(*   - one _detection_loop iteration, filters included (SpecLoop)          *)
(* Each part has its own Init/Next; the variables of the other parts stay  *)
(* at their initial values.                                                *)
(*                                                                         *)
(* Python dicts are functions whose DOMAIN is the set of keys present.     *)
(* Times are whole seconds of the wall clock (datetime.now()).             *)
(* Confidences are whole percents.                                         *)
(***************************************************************************)
EXTENDS Integers, Sequences, FiniteSets, TLC

VARIABLES
    clock,                  \* wall clock read by datetime.now()
    \* ---- safety scan (DetectionService fields)
    vlm_threat_cooldown,    \* self._vlm_threat_cooldown: <<camera, type>> -> time
    pending_vlm_threats,    \* self._pending_vlm_threats: camera -> pending threat
    vlm_events,             \* Events persisted by the safety scan
    vlm_notified,           \* Events handed to send_event_notification by the scan
    \* ---- safety scan (history, not program state)
    scan,                   \* what the most recent scan saw and did
    qualified,              \* camera -> threat types that already had a qualifying verdict
    prev_verdict,           \* camera -> threat type of the previous scan's qualifying verdict, if any
    promoted_at,            \* <<camera, type>> -> time of the last promotion
    \* ---- detection events (DetectionService fields and the events table)
    last_event_time,        \* self._last_event_time: <<camera, class>> -> time
    events,                 \* Events persisted by _process_detections
    ticks,                  \* number of clock advances so far
    skipped,                \* history: seconds since its cooldown entry, for each class the latest pass skipped
    passes,                 \* pass id -> a call of _process_detections suspended at an await
    \* ---- orchestrator (DetectionService fields, cameras table, streams)
    running,                \* self._running
    main_task,              \* where the task in self._task (_main_loop) stands
    stop_pc,                \* where a call of stop() stands
    camera_tasks,           \* self._camera_tasks: camera -> task id
    tasks,                  \* task id -> the _detection_loop task created with it
    detection_enabled,      \* cameras.detection_enabled
    stream_connected,       \* handler exists and handler.is_connected()
    bg_tasks,               \* task id -> an enrichment or safety-scan task a loop created
    loop_fault,             \* history: the latest exception raised in a loop or in a task it created
    \* ---- enrichment (events table and _generate_summary_and_notify tasks)
    event_rows,             \* events table: event id -> row
    enrich_tasks,           \* task id -> the enrichment task created with it
    inserts,                \* ids of the rows whose insert awaits db.refresh
    \* ---- stream handler (one RTSPStreamHandler and its video source)
    h_running,              \* handler._running
    h_state,                \* handler._state
    h_thread,               \* handler._thread: {} is None
    h_stop_pc,              \* where a call of handler.stop() stands
    cap_threads,            \* thread id -> the capture thread started with it
    source_up,              \* the video source opens and delivers frames
    frame_queue,            \* handler._frame_queue, oldest frame first
    frames_read,            \* number of frames read from the source so far
    stopped_ever,           \* history: stop() has been called
    last_get,               \* history: the most recent get_frame / get_frame_async
    last_arrival,           \* history: the most recent frame handed to the queue
    \* ---- stream manager (StreamManager and the handlers it created)
    streams,                \* StreamManager._streams: camera -> handler id
    handlers,               \* handler id -> the RTSPStreamHandler created with it
    lock_holder,            \* StreamManager._lock: {} is free, {call} is held
    calls,                  \* call id -> a call of add_stream, remove_stream or stop_all
    \* ---- detector backends (the YOLODetector and OWLv2Detector singletons)
    yolo,                   \* yolo_detector.detector
    owlv2,                  \* owlv2_detector._owlv2_detector
    startup_done,           \* the application's startup has run
    load_failed,            \* history: a model load or lookup has failed
    last_response,          \* history: HTTP status of the most recent activation or restart
    requests,               \* call id -> a route call or loop start suspended in a model load
    \* ---- detection loop iteration (what _process_detections embedded in each Event)
    event_objects,          \* the Events the iterations created, with the detections embedded in each
    last_vlm_scan,          \* self._last_vlm_scan: camera -> time
    last_iter,              \* history: what the iteration that just finished was given and what it did
    iteration,              \* the iteration of the camera's loop that is past detector.detect
    frame_count,            \* frame_count of the camera's running _detection_loop
    \* ---- allow-list filters (one call of a filter and what it returned)
    filter_in,              \* the detections and the allow-list a filter is called with
    filter_out,             \* history: {} or what the filter returned
    \* ---- consumers of one handler's frames (the detection loop and an MJPEG frame_generator)
    delivered,              \* history: frame -> the consumers a get returned it to, in order
    \* ---- detection loops of cameras of different owners (the shared YOLODetector)
    confidence_threshold,   \* detector.confidence_threshold, in percent
    owner_loops,            \* camera -> what its running loop's setup left in the detector
    last_detect,            \* history: the most recent detector.detect of a loop
    \* ---- the alternative path (EventProcessor.process_frame)
    last_events,            \* EventProcessor._last_events: camera -> class -> time
    proc_calls,             \* call id -> a call of process_frame awaiting detector.detect
    last_frame              \* history: the most recent process_frame call and what it returned

vars == <<clock, vlm_threat_cooldown, pending_vlm_threats, vlm_events,
          vlm_notified, scan, qualified, prev_verdict, promoted_at,
          last_event_time, events, ticks, skipped, passes,
          running, main_task, stop_pc, camera_tasks, tasks,
          detection_enabled, stream_connected, bg_tasks,
          loop_fault,
          event_rows, enrich_tasks, inserts,
          h_running, h_state, h_thread, h_stop_pc, cap_threads, source_up,
          frame_queue, frames_read, stopped_ever, last_get, last_arrival,
          streams, handlers, lock_holder, calls,
          yolo, owlv2, startup_done, load_failed, last_response, requests,
          event_objects, last_vlm_scan, last_iter, iteration, frame_count,
          filter_in, filter_out,
          delivered,
          confidence_threshold, owner_loops, last_detect,
          last_events, proc_calls, last_frame>>

enrichVars == <<event_rows, enrich_tasks, inserts>>

streamVars == <<h_running, h_state, h_thread, h_stop_pc, cap_threads,
                source_up, frame_queue, frames_read, stopped_ever, last_get,
                last_arrival>>

(* The variables of the parts modelled after the orchestrator *)
managerVars == <<streams, handlers, lock_holder, calls>>

detectorVars == <<yolo, owlv2, startup_done, load_failed, last_response, requests>>

loopVars == <<event_objects, last_vlm_scan, last_iter, iteration,
              frame_count>>

filterVars == <<filter_in, filter_out>>

consumerVars == <<delivered>>

ownerVars == <<confidence_threshold, owner_loops, last_detect>>

procVars == <<last_events, proc_calls, last_frame>>

restVars == <<enrichVars, streamVars, managerVars, detectorVars, loopVars, filterVars, consumerVars, ownerVars, procVars>>

orchVars == <<running, main_task, stop_pc, camera_tasks, tasks,
              detection_enabled, stream_connected, bg_tasks,
              loop_fault>>

cooldownVars == <<last_event_time, events, ticks, skipped, passes>>

scanVars == <<vlm_threat_cooldown, pending_vlm_threats, vlm_events,
              vlm_notified, scan, qualified, prev_verdict, promoted_at>>

baseVars == <<clock, scanVars, cooldownVars, orchVars>>

(* What the actions of one part leave alone *)
outsideEnrich == <<baseVars, streamVars, managerVars, detectorVars, loopVars, filterVars, consumerVars, ownerVars, procVars>>

outsideManager == <<baseVars, enrichVars, streamVars, detectorVars, loopVars, filterVars, consumerVars, ownerVars, procVars>>

outsideDetector == <<baseVars, enrichVars, streamVars, managerVars, loopVars, filterVars, consumerVars, ownerVars, procVars>>

outsideLoop == <<baseVars, enrichVars, streamVars, managerVars, detectorVars, filterVars, consumerVars, ownerVars, procVars>>

(* The variables after the orchestrator's, without the loop iteration's *)
outsideLoop_Rest == <<enrichVars, streamVars, managerVars, detectorVars, filterVars, consumerVars, ownerVars, procVars>>

outsideFilter == <<baseVars, enrichVars, streamVars, managerVars, detectorVars, loopVars, consumerVars, ownerVars, procVars>>

outsideConsumer == <<baseVars, enrichVars, streamVars, managerVars, detectorVars, loopVars, filterVars, ownerVars, procVars>>

outsideOwner == <<baseVars, enrichVars, streamVars, managerVars, detectorVars, loopVars, filterVars, consumerVars, procVars>>

outsideDetector_Owner == <<baseVars, enrichVars, streamVars, managerVars, loopVars, filterVars, consumerVars, procVars>>

outsideProc == <<baseVars, enrichVars, streamVars, managerVars, detectorVars, loopVars, filterVars, consumerVars, ownerVars>>

outsideStream == <<baseVars, enrichVars, managerVars, detectorVars, loopVars, filterVars, consumerVars, ownerVars, procVars>>

-----------------------------------------------------------------------------
(* Bounds of the model *)

MaxScanClock == 260

MaxPassTicks == 3

MaxPasses == 2

MaxDets == 2

MaxTasks == 2

MaxBackground == 1

MaxEvents == 2

MaxThreads == 2

MaxFrames == 3

MaxHandlers == 3

MaxCalls == 3

Cameras == {1}

-----------------------------------------------------------------------------
(* Python dict helpers *)

EmptyDict == <<>>

DictPut(d, k, v) == [x \in (DOMAIN d) \cup {k} |-> IF x = k THEN v ELSE d[x]]

DictPop(d, k) == [x \in (DOMAIN d) \ {k} |-> d[x]]

-----------------------------------------------------------------------------
(* Program constants: DetectionService.__init__ and literals of            *)
(* _vlm_safety_scan                                                        *)

vlm_threat_cooldown_seconds == 180

vlm_confirmation_required == 2

MinScanConfidence == 70

CriticalBypassConfidence == 85

StalePendingSeconds == 120

(* Fields of app.core.config.Settings; any other attribute raises
   AttributeError. *)
SettingsFields ==
    {"app_name", "app_version", "debug", "secret_key", "database_url",
     "database_sync_url", "jwt_secret_key", "jwt_algorithm",
     "access_token_expire_minutes", "refresh_token_expire_days",
     "ollama_base_url", "ollama_vlm_model", "ollama_chat_model",
     "yolo_model_path", "yolo_confidence_threshold", "yolo_classes",
     "stream_buffer_size", "stream_reconnect_delay", "max_concurrent_streams",
     "events_storage_path", "frames_storage_path", "cors_origins", "redis_url",
     "cors_origins_list", "yolo_classes_list"}

-----------------------------------------------------------------------------
(* Python str operations, on TLA+ strings.  Positions are Python's: the
   first character is at 0 and a slice [a:b] ends before b. *)

Min2(a, b) == IF a <= b THEN a ELSE b

CharAt(s, i) == SubSeq(s, i + 1, i + 1)

(* s[a:b] for 0 <= a *)
Slice(s, a, b) == SubSeq(s, a + 1, Min2(b, Len(s)))

(* s.find(pat, from): the lowest position at or after from where pat
   starts, -1 when there is none *)
Find(s, pat, from) ==
    LET at == {i \in from..(Len(s) - Len(pat)) :
                   SubSeq(s, i + 1, i + Len(pat)) = pat}
    IN IF at = {} THEN -1 ELSE CHOOSE i \in at : \A j \in at : i <= j

(* pat in s *)
Contains(s, pat) == Find(s, pat, 0) # -1

(* The characters a string of this module can hold are those of ASCII and
   those from U+0080 to U+FFFD whose code point ends in a byte of 0x80 or
   more, the grave accent (U+0060) left out; the tables below say what Python 3.11 (Unicode 14.0.0) does with each
   of them.  A character of a result that cannot be written here is given
   as U+FFFD. *)

Replacement == "�"

(* The characters str.upper() turns into one other character, and that
   character *)
UpperFrom ==
       "abcdefghijklmnopqrstuvwxyzµàáâãäåæçèéêëìíîïðñòóô"
    \o "õöøùúûüýþƃƅƈƌƒƕƙơƣƥƨƭưƴƶƹƽƿǅǆǈǉǋǌǎǐǒǔǖǘǚǜǝǟǡǣǥǧǩ"
    \o "ǫǭǯǲǳǵǹǻǽǿʀʂʃʇʈʊʋʒʝʞάέήίαβγδεζηθικλμνξοπρςστυφχψ"
    \o "ωϊϋόύώϐϑϕϖϗϙϛϝϟϡϣϥϧϩϫϭϯϰϱϲϵϸϻҁҋҍҏґғҕҗҙқҝҟҡңҥҧҩҫҭ"
    \o "үұҳҵҷҹһҽҿӂӄӆӈӊӌӎӏӑӓӕӗәӛӝӟӡӣӥӧөӫӭӯӱӳӵӷӹӻӽӿაბგდევზ"
    \o "თიკლმნოპჟრსტუფქღყშჩცძწჭხჯჰჱჲჳჴჵჶჷჸჹჺჽჾჿᏸᏹᏺᏻᏼᏽᶎẁẃ"
    \o "ẅẇẉẋẍẏẑẓẕạảấầẩẫậắằẳẵặẹẻẽếềểễệỉịọỏốồổỗộớờởỡợụủứừử"
    \o "ữựỳỵỷỹỻỽỿᾰᾱιῐῑῠῡῥↄⓐⓑⓒⓓⓔⓕⓖⓗⓘⓙⓚⓛⓜⓝⓞⓟⓠⓡⓢⓣⓤⓥⓦⓧⓨⓩⲁⲃⲅⲇ"
    \o "ⲉⲋⲍⲏⲑⲓⲕⲗⲙⲛⲝⲟⲡⲣⲥⲧⲩⲫⲭⲯⲱⲳⲵⲷⲹⲻⲽⲿⳁⳃⳅⳇⳉⳋⳍⳏⳑⳓⳕⳗⳙⳛⳝⳟⳡⳣⳬⳮ"
    \o "ⳳꚁꚃꚅꚇꚉꚋꚍꚏꚑꚓꚕꚗꚙꚛꞁꞃꞅꞇꞌꞑꞓꞔꞗꞙꞛꞝꞟꞡꞣꞥꞧꞩꞵꞷꞹꞻꞽꞿꟁꟃꟈꟊꟑꟗꟙꟶꮀ"
    \o "ꮁꮂꮃꮄꮅꮆꮇꮈꮉꮊꮋꮌꮍꮎꮏꮐꮑꮒꮓꮔꮕꮖꮗꮘꮙꮚꮛꮜꮝꮞꮟꮠꮡꮢꮣꮤꮥꮦꮧꮨꮩꮪꮫꮬꮭꮮꮯꮰ"
    \o "ꮱꮲꮳꮴꮵꮶꮷꮸꮹꮺꮻꮼꮽꮾꮿ"

UpperTo ==
       "ABCDEFGHIJKLMNOPQRSTUVWXYZΜÀÁÂÃÄÅÆÇÈÉÊËÌÍÎÏÐÑÒÓÔ"
    \o "ÕÖØÙÚÛÜÝÞƂƄƇƋƑǶƘƠƢƤƧƬƯƳƵƸƼǷǄǄǇǇǊǊǍǏǑǓǕǗǙǛƎǞǠǢǤǦǨ"
    \o "ǪǬǮǱǱǴǸǺǼǾƦꟅƩꞱƮƱƲƷꞲꞰΆΈΉΊΑΒΓΔΕΖΗΘΙΚΛΜΝΞΟΠΡΣΣΤΥΦΧΨ"
    \o "ΩΪΫΌΎΏΒΘΦΠϏϘϚϜϞϠϢϤϦϨϪϬϮΚΡϹΕϷϺҀҊҌҎҐҒҔҖҘҚҜҞҠҢҤҦҨҪҬ"
    \o "ҮҰҲҴҶҸҺҼҾӁӃӅӇӉӋӍӀӐӒӔӖӘӚӜӞӠӢӤӦӨӪӬӮӰӲӴӶӸӺӼӾᲐᲑᲒᲓᲔᲕᲖ"
    \o "ᲗᲘᲙᲚᲛᲜᲝᲞᲟᲠᲡᲢᲣᲤᲥᲦᲧᲨᲩᲪᲫᲬᲭᲮᲯᲰᲱᲲᲳᲴᲵᲶᲷᲸᲹᲺᲽᲾᲿᏰᏱᏲᏳᏴᏵꟆẀẂ"
    \o "ẄẆẈẊẌẎẐẒẔẠẢẤẦẨẪẬẮẰẲẴẶẸẺẼẾỀỂỄỆỈỊỌỎỐỒỔỖỘỚỜỞỠỢỤỦỨỪỬ"
    \o "ỮỰỲỴỶỸỺỼỾᾸᾹΙῘῙῨῩῬↃⒶⒷⒸⒹⒺⒻⒼⒽⒾⒿⓀⓁⓂⓃⓄⓅⓆⓇⓈⓉⓊⓋⓌⓍⓎⓏⲀⲂⲄⲆ"
    \o "ⲈⲊⲌⲎⲐⲒⲔⲖⲘⲚⲜⲞⲠⲢⲤⲦⲨⲪⲬⲮⲰⲲⲴⲶⲸⲺⲼⲾⳀⳂⳄⳆⳈⳊⳌⳎⳐⳒⳔⳖⳘⳚⳜⳞⳠⳢⳫⳭ"
    \o "ⳲꚀꚂꚄꚆꚈꚊꚌꚎꚐꚒꚔꚖꚘꚚꞀꞂꞄꞆꞋꞐꞒꟄꞖꞘꞚꞜꞞꞠꞢꞤꞦꞨꞴꞶꞸꞺꞼꞾꟀꟂꟇꟉꟐꟖꟘꟵᎰ"
    \o "ᎱᎲᎳᎴᎵᎶᎷᎸᎹᎺᎻᎼᎽᎾᎿᏀᏁᏂᏃᏄᏅᏆᏇᏈᏉᏊᏋᏌᏍᏎᏏᏐᏑᏒᏓᏔᏕᏖᏗᏘᏙᏚᏛᏜᏝᏞᏟᏠ"
    \o "ᏡᏢᏣᏤᏥᏦᏧᏨᏩᏪᏫᏬᏭᏮᏯ"

(* The characters str.upper() turns into several characters, or into one
   that cannot be written here *)
UpperMore ==
       ("ß" :> "SS")
    @@ ("ÿ" :> "�")
    @@ ("ƀ" :> "�")
    @@ ("ƚ" :> "�")
    @@ ("ƞ" :> "�")
    @@ ("ǰ" :> "J�")
    @@ ("ʉ" :> "�")
    @@ ("ʌ" :> "�")
    @@ ("ΐ" :> "Ι��")
    @@ ("ΰ" :> "Υ��")
    @@ ("ϳ" :> "�")
    @@ ("ր" :> "�")
    @@ ("ց" :> "�")
    @@ ("ւ" :> "�")
    @@ ("փ" :> "�")
    @@ ("ք" :> "�")
    @@ ("օ" :> "�")
    @@ ("ֆ" :> "�")
    @@ ("և" :> "��")
    @@ ("ᲀ" :> "�")
    @@ ("ᲁ" :> "�")
    @@ ("ᲂ" :> "�")
    @@ ("ᲃ" :> "�")
    @@ ("ᲄ" :> "�")
    @@ ("ᲅ" :> "�")
    @@ ("ᲆ" :> "�")
    @@ ("ᲇ" :> "�")
    @@ ("ᲈ" :> "�")
    @@ ("ẖ" :> "H�")
    @@ ("ẗ" :> "T�")
    @@ ("ẘ" :> "W�")
    @@ ("ẙ" :> "Y�")
    @@ ("ẚ" :> "Aʾ")
    @@ ("ẛ" :> "�")
    @@ ("ᾀ" :> "�Ι")
    @@ ("ᾁ" :> "�Ι")
    @@ ("ᾂ" :> "�Ι")
    @@ ("ᾃ" :> "�Ι")
    @@ ("ᾄ" :> "�Ι")
    @@ ("ᾅ" :> "�Ι")
    @@ ("ᾆ" :> "�Ι")
    @@ ("ᾇ" :> "�Ι")
    @@ ("ᾈ" :> "�Ι")
    @@ ("ᾉ" :> "�Ι")
    @@ ("ᾊ" :> "�Ι")
    @@ ("ᾋ" :> "�Ι")
    @@ ("ᾌ" :> "�Ι")
    @@ ("ᾍ" :> "�Ι")
    @@ ("ᾎ" :> "�Ι")
    @@ ("ᾏ" :> "�Ι")
    @@ ("ᾐ" :> "�Ι")
    @@ ("ᾑ" :> "�Ι")
    @@ ("ᾒ" :> "�Ι")
    @@ ("ᾓ" :> "�Ι")
    @@ ("ᾔ" :> "�Ι")
    @@ ("ᾕ" :> "�Ι")
    @@ ("ᾖ" :> "�Ι")
    @@ ("ᾗ" :> "�Ι")
    @@ ("ᾘ" :> "�Ι")
    @@ ("ᾙ" :> "�Ι")
    @@ ("ᾚ" :> "�Ι")
    @@ ("ᾛ" :> "�Ι")
    @@ ("ᾜ" :> "�Ι")
    @@ ("ᾝ" :> "�Ι")
    @@ ("ᾞ" :> "�Ι")
    @@ ("ᾟ" :> "�Ι")
    @@ ("ᾠ" :> "�Ι")
    @@ ("ᾡ" :> "�Ι")
    @@ ("ᾢ" :> "�Ι")
    @@ ("ᾣ" :> "�Ι")
    @@ ("ᾤ" :> "�Ι")
    @@ ("ᾥ" :> "�Ι")
    @@ ("ᾦ" :> "�Ι")
    @@ ("ᾧ" :> "�Ι")
    @@ ("ᾨ" :> "�Ι")
    @@ ("ᾩ" :> "�Ι")
    @@ ("ᾪ" :> "�Ι")
    @@ ("ᾫ" :> "�Ι")
    @@ ("ᾬ" :> "�Ι")
    @@ ("ᾭ" :> "�Ι")
    @@ ("ᾮ" :> "�Ι")
    @@ ("ᾯ" :> "�Ι")
    @@ ("ᾲ" :> "ᾺΙ")
    @@ ("ᾳ" :> "ΑΙ")
    @@ ("ᾴ" :> "ΆΙ")
    @@ ("ᾶ" :> "Α�")
    @@ ("ᾷ" :> "Α�Ι")
    @@ ("ᾼ" :> "ΑΙ")
    @@ ("ῂ" :> "ῊΙ")
    @@ ("ῃ" :> "ΗΙ")
    @@ ("ῄ" :> "ΉΙ")
    @@ ("ῆ" :> "Η�")
    @@ ("ῇ" :> "Η�Ι")
    @@ ("ῌ" :> "ΗΙ")
    @@ ("ῒ" :> "Ι��")
    @@ ("ΐ" :> "Ι��")
    @@ ("ῖ" :> "Ι�")
    @@ ("ῗ" :> "Ι��")
    @@ ("ῢ" :> "Υ��")
    @@ ("ΰ" :> "Υ��")
    @@ ("ῤ" :> "Ρ�")
    @@ ("ῦ" :> "Υ�")
    @@ ("ῧ" :> "Υ��")
    @@ ("ῲ" :> "ῺΙ")
    @@ ("ῳ" :> "ΩΙ")
    @@ ("ῴ" :> "ΏΙ")
    @@ ("ῶ" :> "Ω�")
    @@ ("ῷ" :> "Ω�Ι")
    @@ ("ῼ" :> "ΩΙ")

(* The characters str.lower() turns into one other character, and that
   character; capital sigma is apart *)
LowerFrom ==
       "ABCDEFGHIJKLMNOPQRSTUVWXYZÀÁÂÃÄÅÆÇÈÉÊËÌÍÎÏÐÑÒÓÔÕ"
    \o "ÖØÙÚÛÜÝÞƂƄƇƋƎƑƘƠƢƤƦƧƩƬƮƯƱƲƳƵƷƸƼǄǅǇǈǊǋǍǏǑǓǕǗǙǛǞǠǢ"
    \o "ǤǦǨǪǬǮǱǲǴǶǷǸǺǼǾΆΈΉΊΌΎΏΑΒΓΔΕΖΗΘΙΚΛΜΝΞΟΠΡΤΥΦΧΨΩΪΫϏ"
    \o "ϘϚϜϞϠϢϤϦϨϪϬϮϴϷϹϺҀҊҌҎҐҒҔҖҘҚҜҞҠҢҤҦҨҪҬҮҰҲҴҶҸҺҼҾӀӁӃӅ"
    \o "ӇӉӋӍӐӒӔӖӘӚӜӞӠӢӤӦӨӪӬӮӰӲӴӶӸӺӼӾᎰᎱᎲᎳᎴᎵᎶᎷᎸᎹᎺᎻᎼᎽᎾᎿᏀᏁᏂᏃ"
    \o "ᏄᏅᏆᏇᏈᏉᏊᏋᏌᏍᏎᏏᏐᏑᏒᏓᏔᏕᏖᏗᏘᏙᏚᏛᏜᏝᏞᏟᏠᏡᏢᏣᏤᏥᏦᏧᏨᏩᏪᏫᏬᏭᏮᏯᏰᏱᏲᏳ"
    \o "ᏴᏵᲐᲑᲒᲓᲔᲕᲖᲗᲘᲙᲚᲛᲜᲝᲞᲟᲠᲡᲢᲣᲤᲥᲦᲧᲨᲩᲪᲫᲬᲭᲮᲯᲰᲱᲲᲳᲴᲵᲶᲷᲸᲹᲺᲽᲾᲿ"
    \o "ẀẂẄẆẈẊẌẎẐẒẔẞẠẢẤẦẨẪẬẮẰẲẴẶẸẺẼẾỀỂỄỆỈỊỌỎỐỒỔỖỘỚỜỞỠỢỤỦ"
    \o "ỨỪỬỮỰỲỴỶỸỺỼỾᾈᾉᾊᾋᾌᾍᾎᾏᾘᾙᾚᾛᾜᾝᾞᾟᾨᾩᾪᾫᾬᾭᾮᾯᾸᾹᾼῌῘῙῨῩῬῼↃⒶ"
    \o "ⒷⒸⒹⒺⒻⒼⒽⒾⒿⓀⓁⓂⓃⓄⓅⓆⓇⓈⓉⓊⓋⓌⓍⓎⓏⲀⲂⲄⲆⲈⲊⲌⲎⲐⲒⲔⲖⲘⲚⲜⲞⲠⲢⲤⲦⲨⲪⲬ"
    \o "ⲮⲰⲲⲴⲶⲸⲺⲼⲾⳀⳂⳄⳆⳈⳊⳌⳎⳐⳒⳔⳖⳘⳚⳜⳞⳠⳢⳫⳭⳲꚀꚂꚄꚆꚈꚊꚌꚎꚐꚒꚔꚖꚘꚚꞀꞂꞄꞆ"
    \o "ꞋꞐꞒꞖꞘꞚꞜꞞꞠꞢꞤꞦꞨꞰꞱꞲꞴꞶꞸꞺꞼꞾꟀꟂꟄꟅꟆꟇꟉꟐꟖꟘꟵ"

LowerTo ==
       "abcdefghijklmnopqrstuvwxyzàáâãäåæçèéêëìíîïðñòóôõ"
    \o "öøùúûüýþƃƅƈƌǝƒƙơƣƥʀƨʃƭʈưʊʋƴƶʒƹƽǆǆǉǉǌǌǎǐǒǔǖǘǚǜǟǡǣ"
    \o "ǥǧǩǫǭǯǳǳǵƕƿǹǻǽǿάέήίόύώαβγδεζηθικλμνξοπρτυφχψωϊϋϗ"
    \o "ϙϛϝϟϡϣϥϧϩϫϭϯθϸϲϻҁҋҍҏґғҕҗҙқҝҟҡңҥҧҩҫҭүұҳҵҷҹһҽҿӏӂӄӆ"
    \o "ӈӊӌӎӑӓӕӗәӛӝӟӡӣӥӧөӫӭӯӱӳӵӷӹӻӽӿꮀꮁꮂꮃꮄꮅꮆꮇꮈꮉꮊꮋꮌꮍꮎꮏꮐꮑꮒꮓ"
    \o "ꮔꮕꮖꮗꮘꮙꮚꮛꮜꮝꮞꮟꮠꮡꮢꮣꮤꮥꮦꮧꮨꮩꮪꮫꮬꮭꮮꮯꮰꮱꮲꮳꮴꮵꮶꮷꮸꮹꮺꮻꮼꮽꮾꮿᏸᏹᏺᏻ"
    \o "ᏼᏽაბგდევზთიკლმნოპჟრსტუფქღყშჩცძწჭხჯჰჱჲჳჴჵჶჷჸჹჺჽჾჿ"
    \o "ẁẃẅẇẉẋẍẏẑẓẕßạảấầẩẫậắằẳẵặẹẻẽếềểễệỉịọỏốồổỗộớờởỡợụủ"
    \o "ứừửữựỳỵỷỹỻỽỿᾀᾁᾂᾃᾄᾅᾆᾇᾐᾑᾒᾓᾔᾕᾖᾗᾠᾡᾢᾣᾤᾥᾦᾧᾰᾱᾳῃῐῑῠῡῥῳↄⓐ"
    \o "ⓑⓒⓓⓔⓕⓖⓗⓘⓙⓚⓛⓜⓝⓞⓟⓠⓡⓢⓣⓤⓥⓦⓧⓨⓩⲁⲃⲅⲇⲉⲋⲍⲏⲑⲓⲕⲗⲙⲛⲝⲟⲡⲣⲥⲧⲩⲫⲭ"
    \o "ⲯⲱⲳⲵⲷⲹⲻⲽⲿⳁⳃⳅⳇⳉⳋⳍⳏⳑⳓⳕⳗⳙⳛⳝⳟⳡⳣⳬⳮⳳꚁꚃꚅꚇꚉꚋꚍꚏꚑꚓꚕꚗꚙꚛꞁꞃꞅꞇ"
    \o "ꞌꞑꞓꞗꞙꞛꞝꞟꞡꞣꞥꞧꞩʞʇʝꞵꞷꞹꞻꞽꞿꟁꟃꞔʂᶎꟈꟊꟑꟗꟙꟶ"

(* The characters str.lower() turns into one that cannot be written here *)
LowerLost ==
       "ƁƆƉƊƏƐƓƔƖƗƜƝƟϽϾϿႠႡႢႣႤႥႦႧႨႩႪႫႬႭႮႯႰႱႲႳႴႵႶႷႸႹႺႻႼႽႾႿ"
    \o "ჀჁჂჃჄჅჇჍᎠᎡᎢᎣᎤᎥᎦᎧᎨᎩᎪᎫᎬᎭᎮᎯᾺΆῈΈῊΉῚΊῪΎῸΌῺΏꞍꞪꞫꞬꞭꞮꞳ"

(* The characters with the property Case_Ignorable *)
CaseIgnorableText ==
       "'.:^¨­¯´·¸ʰʱʲʳʴʵʶʷʸʹʺʻʼʽʾʿˀˁ˂˃˄˅ˆˇˈˉˊˋˌˍˎˏːˑ˒˓˔˕"
    \o "˖˗˘˙˚˛˜˝˞˟ˠˡˢˣˤ˥˦˧˨˩˪˫ˬ˭ˮ˯˰˱˲˳˴˵˶˷˸˹˺˻˼˽˾˿΄΅·҃҄҅"
    \o "҆҇҈҉ְֱֲֳִֵֶַָֹֺֻּ֑֖֛֢֣֤֥֦֧֪֚֭֮֒֓֔֕֗֘֙֜֝֞֟֠֡֨֩֫֬֯"
    \o "ׇֽֿׁׂׅׄ״ۖۗۘۙۚۛۜ۝ۣ۟۠ۡۢۤۥۦ۪ۭۧۨ۫۬ަާިީުޫެޭޮޯް߫߬߭߮߯߰߱"
    \o "߲߳ߴߵߺ߽࢈࢐࢑࢙࢚࢛࢘࢜࢝࢞࢟ࣉ࣏࣐࣑࣒࣓࣊࣋࣌࣍࣎ࣔࣕࣖࣗࣘࣙࣚࣛࣜࣝࣞࣟ࣠࣡࣢ࣣࣦࣤࣥࣧ"
    \o "ࣰࣱࣲࣩ࣭࣮࣯ࣶࣹࣺࣨ࣪࣫࣬ࣳࣴࣵࣷࣸࣻࣼࣽࣾࣿঁ়ুূৃৄ্ৢৣ৾ઁં઼ુૂૃૄૅેૈ્ૢૣૺ"
    \o "ૻૼ૽૾૿ஂீ்ಁ಼ಿೆೌ್ೢೣඁ්ිීුූັິີຶື຺ຸູົຼໆ່້໊໋໌ໍ྄ཱྀྀྂྃ྆྇ྍྎ"
    \o "ྏྐྑྒྒྷྔྕྖྗྙྚྛྜྜྷྞྟྠྡྡྷྣྤྥྦྦྷྨྩྪྫྫྷྭྮྯྰྱྲླྴྵྶྷྸྐྵྺྻྼ࿆ႂႅ"
    \o "ႆႍႝჼ឴឵ិីឹឺុូួំ៉៊់៌៍៎៏័៑្៓ៗ៝ᢅᢆᢩᪧ᪵᪶᪷᪸᪹᪺᪽᪰᪱᪲᪳᪴᪻᪼᪾ᪿᫀ"
    \o "᫃᫄᫊᫁᫂᫅᫆᫇᫈᫉᫋ᫌᫍᫎᮀᮁᮢᮣᮤᮥᮨᮩ᮫ᮬᮭ᯦ᯨᯩᯭᯯᯰᯱ᳔᳕᳖᳗᳘᳙᳜᳝᳞᳟᳐᳑᳒᳚᳛᳠"
    \o "᳢᳣᳤᳥᳦᳧᳨᳭᳴᳸᳹ᶛᶜᶝᶞᶟᶠᶡᶢᶣᶤᶥᶦᶧᶨᶩᶪᶫᶬᶭᶮᶯᶰᶱᶲᶳᶴᶵᶶᶷᶸᶹᶺᶻᶼᶽᶾᶿ"
    \o "᷐᷎᷂᷊᷏᷀᷁᷃᷄᷅᷆᷇᷈᷉᷋᷌᷑᷒ᷓᷔᷕᷖᷗᷘᷙᷚᷛᷜᷝᷞᷟᷠᷡᷢᷣᷤᷥᷦᷧᷨᷩᷪᷫᷬᷭᷮᷯ᷍"
    \o "᷺᷹᷽᷿᷷᷸ᷰᷱᷲᷳᷴ᷵᷻᷾᷶᷼᾽᾿῀῁῍῎῏῝῞῟῭΅`´῾ₐₑₒₓₔₕₖₗₘₙₚₛₜ⃒⃓⃐⃑"
    \o "⃘⃙⃚⃔⃕⃖⃗⃛⃜⃝⃞⃟⃠⃡⃢⃣⃤⃥⃦⃪⃫⃨⃬⃭⃮⃯⃧⃩⃰⳯⳰⳱ⷠⷡⷢⷣⷤⷥⷦⷧⷨⷩⷪⷫⷬⷭⷮⷯ"
    \o "゙゚ⷰⷱⷲⷳⷴⷵⷶⷷⷸⷹⷺⷻⷼⷽⷾⷿ゛゜ゝゞーヽヾꓸꓹꓺꓻꓼꓽꚜꚝꚞꚟ꛰꛱ꞈ꞉꞊ꟲꟳꟴꟸꟹ꣄ꣅ꣠"
    \o "꣡꣢꣣꣤꣥꣦꣧꣨꣩꣪꣫꣬꣭꣮꣯꣰꣱ꣿꦀꦁꦂ꦳ꦶꦷꦸꦹꦼꦽꧏꧥꧦꪴꪰꪲꪳꪷꪸꪾ꪿꫁ꫝꫬꫭꫳꫴ꫶ꯥꯨ"
    \o "꯭﮲﮳﮴﮵﮶﮷﮸﮹﮺﮻﮼﮽﮾﮿﯀﯁﯂﻿ﾞﾟ￣￹￺￻"

(* The characters with the property Cased that are not Case_Ignorable *)
CasedText ==
       "ABCDEFGHIJKLMNOPQRSTUVWXYZabcdefghijklmnopqrstuv"
    \o "wxyzªµºÀÁÂÃÄÅÆÇÈÉÊËÌÍÎÏÐÑÒÓÔÕÖØÙÚÛÜÝÞßàáâãäåæçèé"
    \o "êëìíîïðñòóôõöøùúûüýþÿƀƁƂƃƄƅƆƇƈƉƊƋƌƍƎƏƐƑƒƓƔƕƖƗƘƙƚ"
    \o "ƛƜƝƞƟƠơƢƣƤƥƦƧƨƩƪƫƬƭƮƯưƱƲƳƴƵƶƷƸƹƺƼƽƾƿǄǅǆǇǈǉǊǋǌǍǎǏ"
    \o "ǐǑǒǓǔǕǖǗǘǙǚǛǜǝǞǟǠǡǢǣǤǥǦǧǨǩǪǫǬǭǮǯǰǱǲǳǴǵǶǷǸǹǺǻǼǽǾǿ"
    \o "ʀʁʂʃʄʅʆʇʈʉʊʋʌʍʎʏʐʑʒʓʕʖʗʘʙʚʛʜʝʞʟʠʡʢʣʤʥʦʧʨʩʪʫʬʭʮʯΆ"
    \o "ΈΉΊΌΎΏΐΑΒΓΔΕΖΗΘΙΚΛΜΝΞΟΠΡΣΤΥΦΧΨΩΪΫάέήίΰαβγδεζηθικ"
    \o "λμνξοπρςστυφχψωϊϋόύώϏϐϑϒϓϔϕϖϗϘϙϚϛϜϝϞϟϠϡϢϣϤϥϦϧϨϩϪ"
    \o "ϫϬϭϮϯϰϱϲϳϴϵϷϸϹϺϻϼϽϾϿҀҁҊҋҌҍҎҏҐґҒғҔҕҖҗҘҙҚқҜҝҞҟҠҡҢң"
    \o "ҤҥҦҧҨҩҪҫҬҭҮүҰұҲҳҴҵҶҷҸҹҺһҼҽҾҿӀӁӂӃӄӅӆӇӈӉӊӋӌӍӎӏӐӑӒӓ"
    \o "ӔӕӖӗӘәӚӛӜӝӞӟӠӡӢӣӤӥӦӧӨөӪӫӬӭӮӯӰӱӲӳӴӵӶӷӸӹӺӻӼӽӾӿրցւփ"
    \o "քօֆևֈႠႡႢႣႤႥႦႧႨႩႪႫႬႭႮႯႰႱႲႳႴႵႶႷႸႹႺႻႼႽႾႿჀჁჂჃჄჅჇჍაბგ"
    \o "დევზთიკლმნოპჟრსტუფქღყშჩცძწჭხჯჰჱჲჳჴჵჶჷჸჹჺჽჾჿᎠᎡᎢᎣᎤ"
    \o "ᎥᎦᎧᎨᎩᎪᎫᎬᎭᎮᎯᎰᎱᎲᎳᎴᎵᎶᎷᎸᎹᎺᎻᎼᎽᎾᎿᏀᏁᏂᏃᏄᏅᏆᏇᏈᏉᏊᏋᏌᏍᏎᏏᏐᏑᏒᏓᏔ"
    \o "ᏕᏖᏗᏘᏙᏚᏛᏜᏝᏞᏟᏠᏡᏢᏣᏤᏥᏦᏧᏨᏩᏪᏫᏬᏭᏮᏯᏰᏱᏲᏳᏴᏵᏸᏹᏺᏻᏼᏽᲀᲁᲂᲃᲄᲅᲆᲇᲈ"
    \o "ᲐᲑᲒᲓᲔᲕᲖᲗᲘᲙᲚᲛᲜᲝᲞᲟᲠᲡᲢᲣᲤᲥᲦᲧᲨᲩᲪᲫᲬᲭᲮᲯᲰᲱᲲᲳᲴᲵᲶᲷᲸᲹᲺᲽᲾᲿᶀᶁ"
    \o "ᶂᶃᶄᶅᶆᶇᶈᶉᶊᶋᶌᶍᶎᶏᶐᶑᶒᶓᶔᶕᶖᶗᶘᶙᶚẀẁẂẃẄẅẆẇẈẉẊẋẌẍẎẏẐẑẒẓẔẕẖ"
    \o "ẗẘẙẚẛẜẝẞẟẠạẢảẤấẦầẨẩẪẫẬậẮắẰằẲẳẴẵẶặẸẹẺẻẼẽẾếỀềỂểỄễỆ"
    \o "ệỈỉỊịỌọỎỏỐốỒồỔổỖỗỘộỚớỜờỞởỠỡỢợỤụỦủỨứỪừỬửỮữỰựỲỳỴỵỶ"
    \o "ỷỸỹỺỻỼỽỾỿᾀᾁᾂᾃᾄᾅᾆᾇᾈᾉᾊᾋᾌᾍᾎᾏᾐᾑᾒᾓᾔᾕᾖᾗᾘᾙᾚᾛᾜᾝᾞᾟᾠᾡᾢᾣᾤᾥᾦ"
    \o "ᾧᾨᾩᾪᾫᾬᾭᾮᾯᾰᾱᾲᾳᾴᾶᾷᾸᾹᾺΆᾼιῂῃῄῆῇῈΈῊΉῌῐῑῒΐῖῗῘῙῚΊῠῡῢΰῤῥ"
    \o "ῦῧῨῩῪΎῬῲῳῴῶῷῸΌῺΏῼↃↄⒶⒷⒸⒹⒺⒻⒼⒽⒾⒿⓀⓁⓂⓃⓄⓅⓆⓇⓈⓉⓊⓋⓌⓍⓎⓏⓐⓑⓒ"
    \o "ⓓⓔⓕⓖⓗⓘⓙⓚⓛⓜⓝⓞⓟⓠⓡⓢⓣⓤⓥⓦⓧⓨⓩⲀⲁⲂⲃⲄⲅⲆⲇⲈⲉⲊⲋⲌⲍⲎⲏⲐⲑⲒⲓⲔⲕⲖⲗⲘ"
    \o "ⲙⲚⲛⲜⲝⲞⲟⲠⲡⲢⲣⲤⲥⲦⲧⲨⲩⲪⲫⲬⲭⲮⲯⲰⲱⲲⲳⲴⲵⲶⲷⲸⲹⲺⲻⲼⲽⲾⲿⳀⳁⳂⳃⳄⳅⳆⳇⳈ"
    \o "ⳉⳊⳋⳌⳍⳎⳏⳐⳑⳒⳓⳔⳕⳖⳗⳘⳙⳚⳛⳜⳝⳞⳟⳠⳡⳢⳣⳤⳫⳬⳭⳮⳲⳳꚀꚁꚂꚃꚄꚅꚆꚇꚈꚉꚊꚋꚌꚍ"
    \o "ꚎꚏꚐꚑꚒꚓꚔꚕꚖꚗꚘꚙꚚꚛꞀꞁꞂꞃꞄꞅꞆꞇꞋꞌꞍꞎꞐꞑꞒꞓꞔꞕꞖꞗꞘꞙꞚꞛꞜꞝꞞꞟꞠꞡꞢꞣꞤꞥ"
    \o "ꞦꞧꞨꞩꞪꞫꞬꞭꞮꞯꞰꞱꞲꞳꞴꞵꞶꞷꞸꞹꞺꞻꞼꞽꞾꞿꟀꟁꟂꟃꟄꟅꟆꟇꟈꟉꟊꟐꟑꟓꟕꟖꟗꟘꟙꟵꟶꟺ"
    \o "ꮀꮁꮂꮃꮄꮅꮆꮇꮈꮉꮊꮋꮌꮍꮎꮏꮐꮑꮒꮓꮔꮕꮖꮗꮘꮙꮚꮛꮜꮝꮞꮟꮠꮡꮢꮣꮤꮥꮦꮧꮨꮩꮪꮫꮬꮭꮮꮯ"
    \o "ꮰꮱꮲꮳꮴꮵꮶꮷꮸꮹꮺꮻꮼꮽꮾꮿ"

(* The characters re's \d matches (category Nd), zero to nine of each
   script in turn: int() reads the one at position i as i % 10 *)
DigitRuns ==
       "0123456789۰۱۲۳۴۵۶۷۸۹߀߁߂߃߄߅߆߇߈߉০১২৩৪৫৬৭৮৯૦૧૨૩૪૫૬૭"
    \o "૮૯௦௧௨௩௪௫௬௭௮௯೦೧೨೩೪೫೬೭೮೯෦෧෨෩෪෫෬෭෮෯໐໑໒໓໔໕໖໗໘໙႐႑႒႓႔႕"
    \o "႖႗႘႙០១២៣៤៥៦៧៨៩᧐᧑᧒᧓᧔᧕᧖᧗᧘᧙᪀᪁᪂᪃᪄᪅᪆᪇᪈᪉᪐᪑᪒᪓᪔᪕᪖᪗᪘᪙᮰᮱᮲᮳"
    \o "᮴᮵᮶᮷᮸᮹꣐꣑꣒꣓꣔꣕꣖꣗꣘꣙꧐꧑꧒꧓꧔꧕꧖꧗꧘꧙꧰꧱꧲꧳꧴꧵꧶꧷꧸꧹꯰꯱꯲꯳꯴꯵꯶꯷꯸꯹"

(* The characters of s *)
CharsOf(s) == {CharAt(s, i) : i \in 0..(Len(s) - 1)}

(* ch.upper() of the characters it changes *)
UpperMap ==
    [ch \in CharsOf(UpperFrom) |-> CharAt(UpperTo, Find(UpperFrom, ch, 0))]
        @@ UpperMore

(* ch.upper() *)
UpperChar(ch) == IF ch \in DOMAIN UpperMap THEN UpperMap[ch] ELSE ch

(* s.upper(): every character in upper case, which can make the string
   longer; by halves *)
RECURSIVE StrUpper(_)
StrUpper(s) ==
    IF Len(s) = 0 THEN ""
    ELSE IF Len(s) = 1 THEN UpperChar(s)
    ELSE LET h == Len(s) \div 2
         IN StrUpper(Slice(s, 0, h)) \o StrUpper(Slice(s, h, Len(s)))

(* ch.lower() of the characters it changes, capital sigma apart *)
LowerMap ==
    [ch \in CharsOf(LowerFrom) |-> CharAt(LowerTo, Find(LowerFrom, ch, 0))]
        @@ [ch \in CharsOf(LowerLost) |-> Replacement]

CaseIgnorable == CharsOf(CaseIgnorableText)

Cased == CharsOf(CasedText)

(* The capital sigma at position i of s is in the Final_Sigma context: the
   nearest character before it that is not case-ignorable is cased, and
   the nearest one after it that is not case-ignorable, if any, is not *)
FinalSigma(s, i) ==
    LET before == {j \in 0..(i - 1) : CharAt(s, j) \notin CaseIgnorable}
        after  == {j \in (i + 1)..(Len(s) - 1) :
                       CharAt(s, j) \notin CaseIgnorable}
    IN /\ before # {}
       /\ CharAt(s, CHOOSE j \in before : \A k \in before : k <= j) \in Cased
       /\ \/ after = {}
          \/ CharAt(s, CHOOSE j \in after : \A k \in after : j <= k)
                \notin Cased

(* The character s.lower() has for the one at position i of s *)
LowerAt(s, i) ==
    LET ch == CharAt(s, i) IN
    IF ch = "Σ" THEN (IF FinalSigma(s, i) THEN "ς" ELSE "σ")
    ELSE IF ch \in DOMAIN LowerMap THEN LowerMap[ch]
    ELSE ch

(* s.lower() from position a to before position b, by halves *)
RECURSIVE LowerRange(_, _, _)
LowerRange(s, a, b) ==
    IF b <= a THEN ""
    ELSE IF b = a + 1 THEN LowerAt(s, a)
    ELSE LET h == (a + b) \div 2
         IN LowerRange(s, a, h) \o LowerRange(s, h, b)

(* s.lower() *)
StrLower(s) == LowerRange(s, 0, Len(s))

(* s.replace('**', '').replace('*', ''): every asterisk goes *)
RECURSIVE RemoveStars(_)
RemoveStars(s) ==
    IF Len(s) = 0 THEN ""
    ELSE IF Len(s) = 1 THEN (IF s = "*" THEN "" ELSE s)
    ELSE LET h == Len(s) \div 2
         IN RemoveStars(Slice(s, 0, h)) \o RemoveStars(Slice(s, h, Len(s)))

(* The characters str.strip() and str.split() take for whitespace, those
   with str.isspace(): U+0009 to U+000D, U+001C to U+0020, U+0085, U+00A0
   and U+1680.  The spaces from U+2000 on cannot be written in a string
   of this module, so no reply of the model holds one. *)
Whitespace ==
    {"\t", "\n", "", "\f", "\r", "", "",
     "", "", " ", "", " ", " "}

(* The positions of s whose character is not in chars *)
Outside(s, chars) == {i \in 0..(Len(s) - 1) : CharAt(s, i) \notin chars}

Lowest(S) == CHOOSE i \in S : \A j \in S : i <= j

Highest(S) == CHOOSE i \in S : \A j \in S : i >= j

(* s.lstrip() *)
LStrip(s) ==
    IF Outside(s, Whitespace) = {} THEN ""
    ELSE Slice(s, Lowest(Outside(s, Whitespace)), Len(s))

(* s.rstrip(chars) *)
RStrip(s, chars) ==
    IF Outside(s, chars) = {} THEN ""
    ELSE Slice(s, 0, Highest(Outside(s, chars)) + 1)

(* s.strip() *)
Strip(s) == RStrip(LStrip(s), Whitespace)

(* The characters of s before the first one of chars *)
Before(s, chars) ==
    LET at == {i \in 0..(Len(s) - 1) : CharAt(s, i) \in chars}
    IN IF at = {} THEN s ELSE Slice(s, 0, Lowest(at))

(* s.split()[0] of a string that is not blank *)
FirstWord(s) == Before(LStrip(s), Whitespace)

DigitChars == CharsOf(DigitRuns)

NonDigitChars(s) == CharsOf(s) \ DigitChars

(* int(s) of a string of digits, of whatever scripts *)
RECURSIVE ToInt(_)
ToInt(s) ==
    IF s = "" THEN 0
    ELSE 10 * ToInt(Slice(s, 0, Len(s) - 1))
            + (Find(DigitRuns, CharAt(s, Len(s) - 1), 0) % 10)

(* re.search(r'(\d+)', s): {} for no match, else {int(group 1)}, group 1
   being the first run of digits *)
SearchNumber(s) ==
    LET at == {i \in 0..(Len(s) - 1) : CharAt(s, i) \in DigitChars}
    IN IF at = {} THEN {}
       ELSE {ToInt(Before(Slice(s, Lowest(at), Len(s)), NonDigitChars(s)))}

(* Lines 817-821 and alike: the lowest position of a marker found at or
   after start, or end when there is none before it; the loop over the
   markers in any order gives the minimum *)
RECURSIVE SegmentEnd(_, _, _, _)
SegmentEnd(upper, markers, start, end) ==
    IF markers = <<>> THEN end
    ELSE LET pos == Find(upper, Head(markers), start)
         IN SegmentEnd(upper, Tail(markers), start,
                IF pos # -1 /\ pos < end THEN pos ELSE end)

KnownLevels == {"critical", "high", "medium", "low", "safe"}

(* Lines 776-845: the reply in upper case gives the positions, the reply
   without its asterisks gives the text at those positions *)
ParseSafetyResponse(response) ==
    LET response_upper == StrUpper(response)
        response_clean == RemoveStars(response)
        n == Len(response)
        has(label) == Contains(response_upper, label)
        after(label) == Find(response_upper, label, 0) + Len(label)
        conf_str ==
            Strip(Slice(response_clean, after("CONFIDENCE:"),
                        Min2(after("CONFIDENCE:") + 20, n)))
        answer ==
            StrLower(Strip(Slice(response_clean, after("THREAT_DETECTED:"),
                                 Min2(after("THREAT_DETECTED:") + 20, n))))
        type_text ==
            Slice(response_clean, after("THREAT_TYPE:"),
                  SegmentEnd(response_upper,
                      <<"THREAT_LEVEL:", "DESCRIPTION:", "THREAT_DETECTED:">>,
                      after("THREAT_TYPE:"), n))
        level_text ==
            Slice(response_clean, after("THREAT_LEVEL:"),
                  SegmentEnd(response_upper,
                      <<"THREAT_TYPE:", "DESCRIPTION:", "THREAT_DETECTED:",
                        "DOUBT:", "CONFIDENCE:">>,
                      after("THREAT_LEVEL:"), n))
        level == IF Strip(level_text) # ""
                 THEN FirstWord(StrLower(Strip(level_text))) ELSE "safe"
    IN
    [threat_detected |->
         /\ has("THREAT_DETECTED:")
         /\ (Contains(answer, "yes") \/ Contains(answer, "true")),
     confidence |->
         IF has("CONFIDENCE:") /\ SearchNumber(conf_str) # {}
         THEN CHOOSE num \in SearchNumber(conf_str) : TRUE ELSE 0,
     threat_type |->
         IF has("THREAT_TYPE:")
         THEN RStrip(IF Strip(type_text) # ""
                     THEN FirstWord(StrLower(Strip(type_text))) ELSE "none",
                     {".", ",", ";", ":"})
         ELSE "none",
     threat_level |->
         IF has("THREAT_LEVEL:") /\ level \in KnownLevels THEN level
         ELSE "safe"]

-----------------------------------------------------------------------------
(* The VLM's replies to the safety-scan prompt.  A reply is text in the
   format the prompt asks for (lines 760-765): one labelled line per field,
   the labels plain or set in bold with asterisks, as chat models do.  A
   reply may leave the THREAT_DETECTED line out and may word its answer
   true instead of yes. *)

Absent == "absent"

DetectedAnswers == {"yes", "no"}

ConfidenceAnswers == {69, 70, 85}

TypeAnswers == {"fire", "weapon"}

LevelAnswers == {"critical", "high", "safe"}

PlainShapes ==
    [bold : {FALSE}, detected : DetectedAnswers,
     confidence : ConfidenceAnswers, type : TypeAnswers, level : LevelAnswers]

(* Replies with the level medium *)
MediumShapes ==
    [bold : {FALSE}, detected : {"yes"}, confidence : {70},
     type : TypeAnswers, level : {"medium"}]

(* Replies that word the answer true, or leave the THREAT_DETECTED line
   out *)
LooseShapes ==
    [bold : {FALSE}, detected : {"true", Absent}, confidence : {85},
     type : {"fire"}, level : {"critical", "high"}]

BoldShapes ==
    [bold : {TRUE}, detected : {"yes"}, confidence : {85},
     type : {"fire"}, level : {"critical", "high"}]

ReplyLine(label, value, bold) ==
    (IF bold THEN "**" \o label \o "**" ELSE label) \o " " \o value \o "\n"

ReplyText(sh) ==
    (IF sh.detected = Absent THEN ""
     ELSE ReplyLine("THREAT_DETECTED:", sh.detected, sh.bold))
        \o ReplyLine("CONFIDENCE:", ToString(sh.confidence), sh.bold)
        \o ReplyLine("THREAT_TYPE:", sh.type, sh.bold)
        \o ReplyLine("THREAT_LEVEL:", sh.level, sh.bold)
        \o ReplyLine("DESCRIPTION:", "seen near the door", sh.bold)
        \o ReplyLine("DOUBT:", "could be a reflection", sh.bold)

(* Replies whose fields end in a form feed or a vertical tab (U+000B)
   instead of a space or a line end *)
SpacedReplies ==
    {"THREAT_DETECTED: yes\nCONFIDENCE: 85\nTHREAT_TYPE: fire\f\n"
        \o "THREAT_LEVEL: high\frisk",
     "THREAT_DETECTED: yes\nCONFIDENCE: 85\nTHREAT_TYPE: firezone\n"
        \o "THREAT_LEVEL: high"}

(* Replies with characters outside ASCII: one whose upper-case form is a
   character longer than the reply, so that the positions found in it lie
   one further in the reply itself, and one with its confidence in
   Extended Arabic-Indic digits *)
AccentedReplies ==
    {"Hauptstraße\nTHREAT_DETECTED:yes\nCONFIDENCE:85\nTHREAT_TYPE:fire\n"
        \o "THREAT_LEVEL:high",
     "THREAT_DETECTED: yes\nCONFIDENCE: ۸۵\nTHREAT_TYPE: fire\n"
        \o "THREAT_LEVEL: critical"}

SafetyResponses ==
    {ReplyText(sh) : sh \in PlainShapes \cup MediumShapes \cup LooseShapes
                            \cup BoldShapes}
        \cup SpacedReplies \cup AccentedReplies

(* The parse of every reply of SafetyResponses *)
ParsedResponses == [r \in SafetyResponses |-> ParseSafetyResponse(r)]

-----------------------------------------------------------------------------
(* The anti-hallucination checks, in source order.  Each takes the current
   value of threat_detected and returns the new one. *)

(* Check 1 without the floor *)
ConfidenceCheck_NoFloor(td, confidence) == td

(* Check 1: confidence threshold *)
ConfidenceCheck(td, confidence) ==
    IF td /\ confidence < MinScanConfidence THEN FALSE ELSE td

(* Check 2: per-(camera, threat type) cooldown *)
CooldownCheck(td, cooldown, c, threat_type, now) ==
    IF td /\ <<c, threat_type>> \in DOMAIN cooldown
          /\ now - cooldown[<<c, threat_type>>] < vlm_threat_cooldown_seconds
    THEN FALSE ELSE td

(* Check 3 that confirms against any pending threat of the camera, whatever
   its type *)
MultiFrameCheck_AnyType(td, pending, c, v, now) ==
    IF td /\ v.threat_level \in {"high", "medium"}
    THEN IF c \in DOMAIN pending
         THEN [td |-> TRUE, pending |-> DictPop(pending, c)]
         ELSE [td |-> FALSE,
               pending |-> DictPut(pending, c,
                              [threat_type  |-> v.threat_type,
                               threat_level |-> v.threat_level,
                               confidence   |-> v.confidence,
                               count        |-> 1,
                               first_seen   |-> now])]
    ELSE [td |-> td, pending |-> pending]

(* Check 3 that leaves a confirmed threat in the pending map *)
MultiFrameCheck_NoPop(td, pending, c, v, now) ==
    IF td /\ v.threat_level \in {"high", "medium"}
    THEN IF c \in DOMAIN pending /\ pending[c].threat_type = v.threat_type
         THEN LET count == pending[c].count + 1 IN
              [td |-> count >= vlm_confirmation_required,
               pending |-> DictPut(pending, c, [pending[c] EXCEPT !.count = count])]
         ELSE [td |-> FALSE,
               pending |-> DictPut(pending, c,
                              [threat_type  |-> v.threat_type,
                               threat_level |-> v.threat_level,
                               confidence   |-> v.confidence,
                               count        |-> 1,
                               first_seen   |-> now])]
    ELSE [td |-> td, pending |-> pending]

(* Check 3: multi-frame verification; returns threat_detected and the new
   pending map. *)
MultiFrameCheck(td, pending, c, v, now) ==
    IF td /\ v.threat_level \in {"high", "medium"}
    THEN IF c \in DOMAIN pending /\ pending[c].threat_type = v.threat_type
         THEN LET count == pending[c].count + 1 IN
              IF count >= vlm_confirmation_required
              THEN [td |-> TRUE, pending |-> DictPop(pending, c)]
              ELSE [td |-> FALSE,
                    pending |-> DictPut(pending, c, [pending[c] EXCEPT !.count = count])]
         ELSE [td |-> FALSE,
               pending |-> DictPut(pending, c,
                              [threat_type  |-> v.threat_type,
                               threat_level |-> v.threat_level,
                               confidence   |-> v.confidence,
                               count        |-> 1,
                               first_seen   |-> now])]
    ELSE [td |-> td, pending |-> pending]

(* Critical verdicts with high confidence *)
CriticalBypass(td, v) ==
    IF v.threat_level = "critical" /\ v.confidence >= CriticalBypassConfidence
    THEN TRUE ELSE td

(* Clean up old pending threats *)
CleanStalePending(pending, c, now) ==
    IF c \in DOMAIN pending /\ now - pending[c].first_seen > StalePendingSeconds
    THEN DictPop(pending, c) ELSE pending

(* Line 903 with critical left out of the list *)
CreateEventDecision_NoCritical(td, v) ==
    td /\ v.threat_level \in {"high", "medium"}

(* Line 903 *)
CreateEventDecision(td, v) ==
    td /\ v.threat_level \in {"critical", "high", "medium"}

-----------------------------------------------------------------------------
(* DetectionService._vlm_safety_scan *)

(* Ways the task returns before the checks: _get_vlm_settings found no row,
   the user's safety-scan switch is off, describe_frame returned nothing. *)
EarlyReturns == {"no_vlm_settings", "safety_scan_disabled", "empty_response"}

NoVerdict ==
    [threat_detected |-> FALSE, confidence |-> 0,
     threat_type |-> "none", threat_level |-> "safe"]

NoScan ==
    [happened |-> FALSE, camera |-> 0, reached_checks |-> FALSE,
     verdict |-> NoVerdict, at |-> 0, promoted |-> FALSE,
     pending_before |-> {},
     earlier_qualifying |-> {}, prev |-> {}, last_promo |-> {},
     events_created |-> 0, notifications |-> 0]

PendingOf(pending, c) == IF c \in DOMAIN pending THEN {pending[c]} ELSE {}

(* The event the scan persists (lines 939-962) *)
VlmEvent(id, c, v, now) ==
    [id |-> id, camera_id |-> c, vlm_threat_type |-> v.threat_type,
     severity |-> v.threat_level, vlm_confidence |-> v.confidence,
     scan_time |-> now]

(* One run of the scan task from the VLM's answer on: the parse, the checks,
   the cooldown update and the event creation run without suspension up to
   the database insert. *)
VlmSafetyScan(c, early, resp) ==
    \E v \in {ParsedResponses[resp]} :
    LET now  == clock
        td1  == ConfidenceCheck(v.threat_detected, v.confidence)
        td2  == CooldownCheck(td1, vlm_threat_cooldown, c, v.threat_type, now)
        r3   == MultiFrameCheck(td2, pending_vlm_threats, c, v, now)
        td4  == CriticalBypass(r3.td, v)
        pend == CleanStalePending(r3.pending, c, now)
        create == CreateEventDecision(td4, v)
        key  == <<c, v.threat_type>>
        path_ok == "STORAGE_PATH" \in SettingsFields
        ev   == VlmEvent(Cardinality(vlm_events) + 1, c, v, now)
        events_after   == IF create /\ path_ok THEN vlm_events \cup {ev}
                          ELSE vlm_events
        notified_after == IF create /\ path_ok THEN vlm_notified \cup {ev}
                          ELSE vlm_notified
    IN
    IF early \in EarlyReturns
    THEN (* lines 697-703, 770-771: return before the checks *)
         /\ scan' = [NoScan EXCEPT !.happened = TRUE, !.camera = c, !.at = now]
         /\ UNCHANGED <<clock, vlm_threat_cooldown, pending_vlm_threats,
                        vlm_events, vlm_notified, qualified, prev_verdict,
                        promoted_at, cooldownVars, orchVars, restVars>>
    ELSE /\ pending_vlm_threats' = pend
         /\ vlm_threat_cooldown' =
               IF create THEN DictPut(vlm_threat_cooldown, key, now)
               ELSE vlm_threat_cooldown
         /\ vlm_events' = events_after
         /\ vlm_notified' = notified_after
         /\ scan' =
               [happened |-> TRUE, camera |-> c, reached_checks |-> TRUE,
                verdict |-> v, at |-> now, promoted |-> create,
                pending_before |-> PendingOf(pending_vlm_threats, c),
                earlier_qualifying |-> qualified[c],
                prev |-> prev_verdict[c],
                last_promo |-> IF key \in DOMAIN promoted_at
                               THEN {promoted_at[key]} ELSE {},
                events_created |-> Cardinality(events_after \ vlm_events),
                notifications |-> Cardinality(notified_after \ vlm_notified)]
         /\ qualified' =
               [qualified EXCEPT ![c] = IF td2 THEN @ \cup {v.threat_type} ELSE @]
         /\ prev_verdict' =
               [prev_verdict EXCEPT ![c] = IF td2 THEN {v.threat_type} ELSE {}]
         /\ promoted_at' =
               IF create THEN DictPut(promoted_at, key, now) ELSE promoted_at
         /\ UNCHANGED <<clock, cooldownVars, orchVars, restVars>>

ScanStep ==
    \E c \in Cameras :
        \/ \E r \in SafetyResponses : VlmSafetyScan(c, "no", r)
        \/ \E e \in EarlyReturns : VlmSafetyScan(c, e, CHOOSE r \in SafetyResponses : TRUE)

ScanTickSteps == {130}

ScanTick ==
    \E d \in ScanTickSteps :
        /\ clock + d <= MaxScanClock
        /\ clock' = clock + d
        /\ scan' = NoScan
        /\ UNCHANGED <<vlm_threat_cooldown, pending_vlm_threats, vlm_events,
                       vlm_notified, qualified, prev_verdict, promoted_at,
                       cooldownVars, orchVars, restVars>>

(* DetectionService.__init__, the part the safety scan uses *)
InitScanVars ==
    /\ vlm_threat_cooldown = EmptyDict
    /\ pending_vlm_threats = EmptyDict
    /\ vlm_events = {}
    /\ vlm_notified = {}
    /\ scan = NoScan
    /\ qualified = [c \in Cameras |-> {}]
    /\ prev_verdict = [c \in Cameras |-> {}]
    /\ promoted_at = EmptyDict

(* DetectionService.__init__, the part _process_detections uses *)
InitCooldownVars ==
    /\ last_event_time = EmptyDict
    /\ events = {}
    /\ ticks = 0
    /\ skipped = {}
    /\ passes = EmptyDict

OrchCameras == {1, 2}

(* No exception yet *)
NoFault ==
    [happened |-> FALSE, task |-> 0, place |-> "none", ended |-> FALSE,
     after |-> FALSE]

(* DetectionService.__init__, the part the orchestrator uses; every camera
   row has detection enabled (the column's default) and no stream is up. *)
InitOrchVars ==
    /\ running = FALSE
    /\ main_task = "none"
    /\ stop_pc = "idle"
    /\ camera_tasks = EmptyDict
    /\ tasks = EmptyDict
    /\ detection_enabled = [c \in OrchCameras |-> TRUE]
    /\ stream_connected = [c \in OrchCameras |-> FALSE]
    /\ bg_tasks = EmptyDict
    /\ loop_fault = NoFault

(* The events table is empty and no enrichment task exists *)
InitEnrichVars ==
    /\ event_rows = EmptyDict
    /\ enrich_tasks = EmptyDict
    /\ inserts = {}

NoGet == [happened |-> FALSE, returned |-> {}, newest |-> {}]

NoArrival == [happened |-> FALSE, saw_full |-> FALSE, kept |-> FALSE]

(* RTSPStreamHandler.__init__, with a source that is up *)
InitStreamVars ==
    /\ h_running = FALSE
    /\ h_state = "idle"
    /\ h_thread = {}
    /\ h_stop_pc = "idle"
    /\ cap_threads = EmptyDict
    /\ source_up = TRUE
    /\ frame_queue = <<>>
    /\ frames_read = 0
    /\ stopped_ever = FALSE
    /\ last_get = NoGet
    /\ last_arrival = NoArrival

(* StreamManager.__init__ *)
InitManagerVars ==
    /\ streams = EmptyDict
    /\ handlers = EmptyDict
    /\ lock_holder = {}
    /\ calls = EmptyDict

(* YOLODetector.__init__ and OWLv2Detector.__init__ *)
InitDetectorVars ==
    /\ yolo = [initialized |-> FALSE, model |-> {}, model_path |-> "yolov8n",
               model_name |-> "yolov8n", device |-> "cuda",
               current_model_name |-> {}]
    /\ owlv2 = [initialized |-> FALSE, model |-> {}, current_model_name |-> {}]
    /\ startup_done = FALSE
    /\ load_failed = FALSE
    /\ last_response = 0
    /\ requests = EmptyDict

NoIteration ==
    [happened |-> FALSE, ended |-> "none", groups |-> {}, created |-> <<>>,
     scan_due |-> FALSE, scan_launched |-> FALSE, passing |-> 0,
     frame_count |-> 0, detector_called |-> FALSE]

(* No iteration of the loop is past detector.detect *)
NoRun ==
    [pc |-> "idle", enabled |-> {}, raw |-> <<>>, dets |-> <<>>,
     order |-> <<>>, i |-> 0, now |-> 0, groups |-> {}, created |-> <<>>]

InitLoopVars ==
    /\ event_objects = {}
    /\ last_vlm_scan = EmptyDict
    /\ last_iter = NoIteration
    /\ iteration = NoRun
    /\ frame_count = 0
NoFilterInput == [detections |-> <<>>, allow |-> {}]

InitFilterVars ==
    /\ filter_in = NoFilterInput
    /\ filter_out = {}

InitConsumerVars ==
    /\ delivered = EmptyDict

NoDetect == [happened |-> FALSE, camera |-> 0, model |-> {}, threshold |-> 0]

(* YOLODetector.__init__, line 56: settings.yolo_confidence_threshold = 0.5 *)
InitOwnerVars ==
    /\ confidence_threshold = 50
    /\ owner_loops = EmptyDict
    /\ last_detect = NoDetect

NoFrame ==
    [happened |-> FALSE, camera |-> 0, cooling |-> {}, classes |-> {},
     outcome |-> "none", returned |-> {}, refreshed |-> {}]
(* EventProcessor.__init__, line 35 *)
InitProcVars ==
    /\ last_events = EmptyDict
    /\ proc_calls = EmptyDict
    /\ last_frame = NoFrame

InitRestVars ==
    /\ InitEnrichVars
    /\ InitStreamVars
    /\ InitManagerVars
    /\ InitDetectorVars
    /\ InitLoopVars
    /\ InitFilterVars
    /\ InitConsumerVars
    /\ InitOwnerVars
    /\ InitProcVars

InitScan ==
    /\ clock = 0
    /\ InitScanVars
    /\ InitCooldownVars
    /\ InitOrchVars
    /\ InitRestVars

NextScan == ScanStep \/ ScanTick

SpecScan == InitScan /\ [][NextScan]_vars

-----------------------------------------------------------------------------
(* DetectionService._process_detections: one Event per class group that is
   not in cooldown. *)

event_cooldown == 10

SecondsPerDay == 86400

(* timedelta.seconds: the seconds component of a timedelta, 0..86399, the
   whole days being kept in .days *)
TimedeltaSeconds(delta) == delta % SecondsPerDay

(* Line 316 with the comparison turned round *)
InCooldown_Flipped(cooldown, key, now) ==
    /\ key \in DOMAIN cooldown
    /\ TimedeltaSeconds(now - cooldown[key]) > event_cooldown

(* Line 315-316: last_time and (now - last_time).seconds < cooldown *)
InCooldown(cooldown, key, now) ==
    /\ key \in DOMAIN cooldown
    /\ TimedeltaSeconds(now - cooldown[key]) < event_cooldown

ClassNames == {"person", "car"}

PassConfidences == {60}

Detections == [class_name : ClassNames, confidence : PassConfidences]

DetectionLists == UNION {[1..n -> Detections] : n \in 1..MaxDets}

(* Lines 303-308: the class names in order of first appearance (the dict's
   insertion order) *)
RECURSIVE ClassOrder(_)
ClassOrder(dets) ==
    IF dets = <<>> THEN <<>>
    ELSE LET front == ClassOrder(SubSeq(dets, 1, Len(dets) - 1))
             k == dets[Len(dets)].class_name
         IN IF \E i \in 1..Len(front) : front[i] = k THEN front
            ELSE Append(front, k)

(* The inserted row; nth tells rows with equal camera, class and timestamp
   apart. *)
NewEvent(evs, c, k, now) ==
    [camera_id |-> c, class |-> k, timestamp |-> now,
     nth |-> 1 + Cardinality({e \in evs : /\ e.camera_id = c /\ e.class = k
                                          /\ e.timestamp = now})]

(* Lines 311-362 from class group order[i] to the next await: the groups in
   cooldown are skipped; for the first one that is not, the cooldown entry
   is written and the frame saved (_save_frame has no await of its own), the
   session opened and db.commit awaited.  pc says where the call stands
   then: "commit", "raised" (_save_frame raised and the exception left the
   function) or "returned" (no group left). *)
RECURSIVE RunToAwait(_, _, _, _, _, _)
RunToAwait(order, i, st, c, now, save_fails) ==
    IF i > Len(order) THEN [st EXCEPT !.i = i, !.pc = "returned"]
    ELSE LET key == <<c, order[i]>> IN
         IF InCooldown(st.cooldown, key, now)
         THEN RunToAwait(order, i + 1,
                  [st EXCEPT !.skipped = @ \cup {now - st.cooldown[key]}],
                  c, now, save_fails)
         ELSE [st EXCEPT !.cooldown = DictPut(st.cooldown, key, now),
                         !.i = i,
                         !.pc = IF save_fails THEN "raised" ELSE "commit"]

(* The passes of camera c that have not been cancelled.  _process_detections
   is called by the camera's detection loop only, which awaits it (line
   201); a second loop of the camera is created only once the first has
   been cancelled (lines 92-101, 63-65), and a cancelled task never resumes
   its pass. *)
ActivePasses(c) ==
    {id \in DOMAIN passes : passes[id].camera = c /\ passes[id].pc # "closing"}

PassIds == 1..MaxPasses

(* _process_detections, lines 300-362: the call up to its first await *)
ProcessDetections(c, dets, save_fails) ==
    /\ ActivePasses(c) = {}
    /\ PassIds \ DOMAIN passes # {}
    /\ LET id == CHOOSE x \in PassIds \ DOMAIN passes :
                     \A y \in PassIds \ DOMAIN passes : x <= y
           order == ClassOrder(dets)
           r == RunToAwait(order, 1,
                    [cooldown |-> last_event_time, skipped |-> {},
                     i |-> 1, pc |-> "returned"],
                    c, clock, save_fails)
       IN /\ last_event_time' = r.cooldown
          /\ skipped' = r.skipped
          /\ passes' = IF r.pc = "commit"
                        THEN DictPut(passes, id,
                                 [camera |-> c, now |-> clock, order |-> order,
                                  i |-> r.i, pc |-> "commit"])
                        ELSE passes
    /\ UNCHANGED <<clock, events, ticks, scanVars, orchVars, restVars>>

PassStep ==
    \E c \in Cameras, dets \in DetectionLists, save_fails \in BOOLEAN :
        ProcessDetections(c, dets, save_fails)

(* Lines 362-363 and 372: db.commit returns and the Event is in the table,
   the call awaits db.refresh; or db.commit raises, the session is closed
   and the exception caught *)
CommitReturns(id, ok) ==
    /\ id \in DOMAIN passes
    /\ passes[id].pc = "commit"
    /\ LET p == passes[id] IN
       events' = IF ok
                 THEN events \cup {NewEvent(events, p.camera, p.order[p.i], p.now)}
                 ELSE events
    /\ passes' = [passes EXCEPT ![id].pc = IF ok THEN "refresh" ELSE "close"]
    /\ skipped' = {}
    /\ UNCHANGED <<clock, last_event_time, ticks, scanVars, orchVars,
                   restVars>>

(* Lines 363-370: db.refresh returns, the enrichment task is created and
   the session closed *)
RefreshReturns(id) ==
    /\ id \in DOMAIN passes
    /\ passes[id].pc = "refresh"
    /\ passes' = [passes EXCEPT ![id].pc = "close"]
    /\ skipped' = {}
    /\ UNCHANGED <<clock, last_event_time, events, ticks, scanVars, orchVars,
                   restVars>>

(* Lines 339 and 311-362: the session is closed and the for loop goes on
   with the next class group, up to the next await or the return *)
SessionClosed(id, save_fails) ==
    /\ id \in DOMAIN passes
    /\ passes[id].pc = "close"
    /\ LET p == passes[id]
           r == RunToAwait(p.order, p.i + 1,
                    [cooldown |-> last_event_time, skipped |-> {},
                     i |-> p.i, pc |-> "returned"],
                    p.camera, p.now, save_fails)
       IN /\ last_event_time' = r.cooldown
          /\ skipped' = r.skipped
          /\ passes' = IF r.pc = "commit"
                        THEN [passes EXCEPT ![id].i = r.i, ![id].pc = "commit"]
                        ELSE DictPop(passes, id)
    /\ UNCHANGED <<clock, events, ticks, scanVars, orchVars, restVars>>

(* The loop's task is cancelled while the call awaits inside the session
   block: CancelledError is raised at the await and passes line 372 (it is
   no Exception).  Raised at db.commit or db.refresh, the session is closed
   before it leaves the function; raised at the close of the session, it
   leaves the function at once. *)
PassCancelled(id) ==
    /\ id \in DOMAIN passes
    /\ passes[id].pc # "closing"
    /\ passes' = IF passes[id].pc = "close"
                 THEN DictPop(passes, id)
                 ELSE [passes EXCEPT ![id] = [camera |-> passes[id].camera,
                                              now |-> 0, order |-> <<>>,
                                              i |-> 0, pc |-> "closing"]]
    /\ skipped' = {}
    /\ UNCHANGED <<clock, last_event_time, events, ticks, scanVars, orchVars,
                   restVars>>

(* The session of a cancelled call is closed; the call is over *)
PassClosed(id) ==
    /\ id \in DOMAIN passes
    /\ passes[id].pc = "closing"
    /\ passes' = DictPop(passes, id)
    /\ skipped' = {}
    /\ UNCHANGED <<clock, last_event_time, events, ticks, scanVars, orchVars,
                   restVars>>

PassTickSteps == {5, 86400}

PassTick ==
    \E d \in PassTickSteps :
        /\ ticks < MaxPassTicks
        /\ ticks' = ticks + 1
        /\ clock' = clock + d
        /\ skipped' = {}
        /\ UNCHANGED <<last_event_time, events, passes, scanVars, orchVars,
                     restVars>>

InitCooldown ==
    /\ clock = 0
    /\ InitScanVars
    /\ InitCooldownVars
    /\ InitOrchVars
    /\ InitRestVars

NextCooldown ==
    \/ PassStep
    \/ \E id \in PassIds, ok \in BOOLEAN : CommitReturns(id, ok)
    \/ \E id \in PassIds : RefreshReturns(id)
    \/ \E id \in PassIds, save_fails \in BOOLEAN : SessionClosed(id, save_fails)
    \/ \E id \in PassIds : PassCancelled(id)
    \/ \E id \in PassIds : PassClosed(id)
    \/ PassTick

SpecCooldown == InitCooldown /\ [][NextCooldown]_vars

(* C1: any two Events created for the same camera and class have creation
   timestamps at least the cooldown window (10 s) apart. *)
C1_CooldownInvariant ==
    \A e1, e2 \in events :
        (e1 # e2 /\ e1.camera_id = e2.camera_id /\ e1.class = e2.class)
            => (e1.timestamp - e2.timestamp >= 10 \/ e2.timestamp - e1.timestamp >= 10)

(* The same class fired inside the window and no second Event was created;
   it fired again at the end of the window and one was. *)
C1_Witness ==
    /\ \E e1, e2 \in events :
          /\ e1.camera_id = e2.camera_id /\ e1.class = e2.class
          /\ e2.timestamp - e1.timestamp = 10
    /\ \E e \in events :
          /\ <<e.camera_id, e.class>> \in DOMAIN last_event_time
          /\ clock - e.timestamp = 5
          /\ last_event_time[<<e.camera_id, e.class>>] = e.timestamp

(* C35: the cooldown suppresses only within its window: a passing detection
   of a (camera, class) is skipped only if fewer than 10 seconds have
   elapsed since the pair's cooldown entry, gaps longer than one day
   included. *)
C35_SkipOnlyInsideWindow ==
    \A elapsed \in skipped : elapsed < event_cooldown

(* The insert for the cooldown entry of key is still under way *)
InsertPending(key) ==
    \E id \in DOMAIN passes :
        /\ passes[id].pc = "commit"
        /\ <<passes[id].camera, passes[id].order[passes[id].i]>> = key
        /\ passes[id].now = last_event_time[key]

(* C31: the cooldown map holds no dangling entry: an entry for (camera,
   class) with timestamp t exists only if an Event of that pair with
   timestamp t was persisted or is being inserted; a failed frame save or
   insert, or a cancellation, leaves the entry as it was. *)
C31_NoDanglingCooldown ==
    \A key \in DOMAIN last_event_time :
        \/ InsertPending(key)
        \/ \E e \in events :
              /\ e.camera_id = key[1]
              /\ e.class = key[2]
              /\ e.timestamp = last_event_time[key]

-----------------------------------------------------------------------------
(* The YOLODetector singleton as the detection loops use it: get_detector(),
   initialize(), load_model() and shutdown() (yolo_detector.py), and the
   detection settings of the cameras' owners.

   model: {} is None, {name} the loaded model (the file is <name>.pt).  A
   load runs in the default executor and takes two inputs from the
   environment: ok (the weights load) and cuda (torch.cuda.is_available()). *)

(* The device a load leaves in self.device *)
DeviceAfterLoad(device, cuda) ==
    IF device = "cuda" /\ ~cuda THEN "cpu" ELSE device

(* YOLODetector.initialize() once the executor is done, lines 138-161; path
   is the model file YOLO(self.model_path) was given.  A load that raises
   leaves the detector as it was and initialize returns False. *)
YoloInitialize(y, path, ok, cuda) ==
    IF ok
    THEN [y EXCEPT !.model = {path},
                   !.device = DeviceAfterLoad(y.device, cuda),
                   !.initialized = TRUE]
    ELSE y

(* Line 73: the test that skips the load.  _current_model_name is written
   at line 119 only. *)
SameModelLoaded(y, model_name, device) ==
    /\ y.initialized
    /\ y.current_model_name = {model_name}
    /\ y.device = device

(* The attributes class Settings defines (config.py 9-57) *)
SettingsAttributes ==
    {"app_name", "app_version", "debug", "secret_key", "database_url",
     "database_sync_url", "jwt_secret_key", "jwt_algorithm",
     "access_token_expire_minutes", "refresh_token_expire_days",
     "ollama_base_url", "ollama_vlm_model", "ollama_chat_model",
     "yolo_model_path", "yolo_confidence_threshold", "yolo_classes",
     "stream_buffer_size", "stream_reconnect_delay",
     "max_concurrent_streams", "events_storage_path",
     "frames_storage_path", "cors_origins", "redis_url",
     "cors_origins_list", "yolo_classes_list"}

(* `settings.<name>`: the lookup raises AttributeError when Settings
   defines no such attribute *)
ReadSetting(name) ==
    IF name \in SettingsAttributes THEN "returned" ELSE "AttributeError"

(* YOLODetector.load_model(model_name, device), lines 70-124.  Past the
   skip test the device and the model name are written (78-79) and line 83
   reads settings.models_path; the AttributeError is caught at 122 and the
   call returns False without having loaded anything. *)
YoloLoadModel(y, model_name, device) ==
    IF SameModelLoaded(y, model_name, device)
    THEN y
    ELSE IF ReadSetting("models_path") = "AttributeError"
    THEN [y EXCEPT !.device = device, !.model_name = model_name]
    ELSE [y EXCEPT !.device = device, !.model_name = model_name,
                   !.model_path = model_name, !.model = {model_name},
                   !.initialized = TRUE,
                   !.current_model_name = {model_name}]

(* load_model returns False *)
LoadModelFails(y, model_name, device) ==
    /\ ~SameModelLoaded(y, model_name, device)
    /\ ReadSetting("models_path") = "AttributeError"

(* YOLODetector.shutdown() *)
YoloShutdown(y) ==
    [y EXCEPT !.model = {}, !.initialized = FALSE]

(* get_detector(), line 500: the detector is initialised first when it is
   not *)
GetDetector(y) == IF ~y.initialized THEN "get_init" ELSE "returned"

OwnerCameras == {1, 2}

(* cameras.user_id: the owner of each camera *)
CameraOwner(c) == IF c = 1 THEN "alice" ELSE "bob"

(* The owners' rows of user_settings: detection_model, detection_device and
   detection_confidence (in percent) *)
UserDetectionSettings(u) ==
    IF u = "alice"
    THEN [model |-> "yolov8n", device |-> "cuda", confidence |-> 50]
    ELSE [model |-> "custom", device |-> "cuda", confidence |-> 30]

(* Line 124: detector.confidence_threshold = confidence *)
SetThreshold(current, confidence) == confidence

-----------------------------------------------------------------------------
(* The orchestrator: DetectionService.start / stop / _main_loop and the
   per-camera _detection_loop tasks.

   A task runs from one await to the next in one step.  A _detection_loop
   task is in one of these places:
     "setup"         awaiting the query of _get_user_settings (line 116)
     "initializing"  awaiting detector.initialize() inside get_detector()
                     (line 122), which happens when the detector is not
                     initialised; no session open
     "configuring"   awaiting the query of _get_vlm_settings (line 127)
     "classes"       awaiting the query of _get_enabled_classes (line 143)
     "waiting"       awaiting get_frame_async (line 154)
     "sleeping"      awaiting asyncio.sleep (line 159 or 221)
     "refresh"       awaiting the query of _get_enabled_classes (line 167)
     "in_db"         awaiting the query of _get_enabled_classes (line 171)
     "detecting"     awaiting the executor inside detector.detect (line
                     176), no session open
     "committing"    in _process_detections, awaiting db.commit (line 362)
     "refreshing"    in _process_detections, awaiting db.refresh (line 363)
     "settings"      awaiting the query of _get_vlm_settings (line 207)
     "setup_close", "configuring_close", "classes_close", "refresh_close",
     "in_db_close", "insert_close", "settings_close"
                     the body of the session block is over (the query has
                     returned or raised) and the task awaits the close of
                     the session in __aexit__
     "closing"       CancelledError raised at a query, commit or refresh
                     inside a session block; the session's __aexit__ awaits
                     the close before the error travels on
     "done"          finished
   load_model (line 123), get_vlm_service (129), _save_frame (334) and a
   detect of a detector without a model never suspend.
   The field more of a task says that the frame in hand has a further class
   group to insert after the current one; cfg holds the locals model_name,
   device and confidence of lines 117-119.
   Task.cancel() only requests cancellation; the CancelledError is raised at
   the await the task is suspended on, on the next pass of the event loop and
   before anything scheduled after the cancel() call runs, so the request and
   its delivery are one step here. *)

LoopStates ==
    {"setup", "setup_close", "initializing", "configuring",
     "configuring_close", "classes", "classes_close", "waiting", "sleeping",
     "refresh", "refresh_close", "in_db", "in_db_close", "detecting",
     "committing", "refreshing", "insert_close", "settings",
     "settings_close", "closing", "done"}

(* The places where the task awaits a query, commit or refresh inside a
   session block *)
InSession == {"setup", "configuring", "classes", "refresh", "in_db",
              "committing", "refreshing", "settings"}

(* The places where the task awaits the close of its session *)
AtClose == {"setup_close", "configuring_close", "classes_close",
            "refresh_close", "in_db_close", "insert_close",
            "settings_close"}

(* The places before the while loop *)
BeforeLoop == {"setup", "setup_close", "initializing", "configuring",
               "configuring_close", "classes", "classes_close"}

(* The place of a task once a cancel() reached it: at a query, commit or
   refresh inside a session block the session is closed first; at any other
   await, the close of a session included, the CancelledError ends the task
   at once (line 217, out of the handler of line 219 during its sleep, or
   out of the coroutine before the loop) *)
Cancelled(state) ==
    CASE state \in InSession -> "closing"
      [] state \in {"closing", "done"} -> state
      [] OTHER -> "done"

CancelTask(ts, id) == [ts EXCEPT ![id].state = Cancelled(@)]

(* task.done() never seen true *)
IsDone_Never(ts, id) == FALSE

(* Line 90: self._camera_tasks[camera.id].done() *)
IsDone(ts, id) == ts[id].state = "done"

LiveTasks(c) ==
    {id \in DOMAIN tasks : tasks[id].camera = c /\ tasks[id].state # "done"}

(* Lines 146-151: the while condition and the stream check at the top of an
   iteration pass *)
LoopTestPasses(c) == running /\ stream_connected[c]

(* Lines 146-154: the top of an iteration, up to get_frame_async *)
LoopTop(c) == IF LoopTestPasses(c) THEN "waiting" ELSE "done"

(* The locals of a loop that has not fetched its user's settings yet *)
NoSettings == [model |-> "", device |-> "", confidence |-> 0]

(* Lines 117-119: the values used when the user has no settings row or the
   query failed *)
DefaultDetectionSettings ==
    [model |-> "yolov8n", device |-> "cuda", confidence |-> 50]

(* asyncio.create_task(self._detection_loop(camera.id, camera.owner_id)) *)
NewLoopTask(c) ==
    [camera |-> c, state |-> "setup", more |-> FALSE, cfg |-> NoSettings]

(* What every step of the service and of its loops leaves alone *)
outsideOrch == <<clock, scanVars, cooldownVars, restVars>>

(* The same without the detector and its threshold, which the setup of a
   loop writes *)
outsideOrch_Setup ==
    <<clock, scanVars, cooldownVars, enrichVars, streamVars, managerVars,
      owlv2, startup_done, load_failed, last_response, requests, loopVars,
      filterVars, consumerVars, owner_loops, last_detect, procVars>>

(* start(); the application calls start() and stop() one after the other *)
Start ==
    /\ ~running
    /\ stop_pc = "idle"
    /\ running' = TRUE
    /\ main_task' = "query"
    /\ UNCHANGED <<stop_pc, camera_tasks, tasks, detection_enabled,
                   stream_connected, bg_tasks, loop_fault>>
    /\ UNCHANGED outsideOrch

(* Lines 62-65: cancel every registered camera task; they are not awaited *)
CancelRegistered(ts, dict) ==
    [id \in DOMAIN ts |->
        IF \E c \in DOMAIN dict : dict[c] = id
        THEN [ts[id] EXCEPT !.state = Cancelled(@)]
        ELSE ts[id]]

(* stop() when self._task is live, lines 54-58: clear the flag, cancel the
   main task and await it.  The main task is cancelled in its sleep, or in
   its query, where its session is closed first. *)
StopBegin ==
    /\ stop_pc = "idle"
    /\ main_task \in {"query", "sleep"}
    /\ running' = FALSE
    /\ main_task' = IF main_task = "query" THEN "closing" ELSE "done"
    /\ stop_pc' = "awaiting_main"
    /\ UNCHANGED <<camera_tasks, tasks, detection_enabled, stream_connected,
                   bg_tasks, loop_fault>>
    /\ UNCHANGED outsideOrch

(* The session of the cancelled main task is closed and the task finishes *)
MainClosed ==
    /\ main_task = "closing"
    /\ main_task' = "done"
    /\ UNCHANGED <<running, stop_pc, camera_tasks, tasks, detection_enabled,
                   stream_connected, bg_tasks, loop_fault>>
    /\ UNCHANGED outsideOrch

(* stop(), lines 62-66, once the main task has finished *)
StopFinish ==
    /\ stop_pc = "awaiting_main"
    /\ main_task = "done"
    /\ tasks' = CancelRegistered(tasks, camera_tasks)
    /\ camera_tasks' = EmptyDict
    /\ stop_pc' = "idle"
    /\ UNCHANGED <<running, main_task, detection_enabled, stream_connected,
                   bg_tasks, loop_fault>>
    /\ UNCHANGED outsideOrch

(* stop() when there is no live main task: nothing to await, lines 54-66
   run without a pause *)
StopIdle ==
    /\ stop_pc = "idle"
    /\ main_task \in {"none", "done"}
    /\ running' = FALSE
    /\ tasks' = CancelRegistered(tasks, camera_tasks)
    /\ camera_tasks' = EmptyDict
    /\ UNCHANGED <<main_task, stop_pc, detection_enabled, stream_connected,
                   bg_tasks, loop_fault>>
    /\ UNCHANGED outsideOrch

(* Lines 84-101 for the cameras in cams, in order; st is the dict and the
   tasks so far. *)
RECURSIVE PollCameras(_, _)
PollCameras(cams, st) ==
    IF cams = <<>> THEN st
    ELSE LET c    == Head(cams)
             rest == Tail(cams)
         IN IF stream_connected[c]
            THEN IF c \notin DOMAIN st.camera_tasks
                    \/ IsDone(st.tasks, st.camera_tasks[c])
                 THEN LET id == Cardinality(DOMAIN st.tasks) + 1 IN
                      PollCameras(rest,
                          [camera_tasks |-> DictPut(st.camera_tasks, c, id),
                           tasks |-> DictPut(st.tasks, id, NewLoopTask(c))])
                 ELSE PollCameras(rest, st)
            ELSE IF c \in DOMAIN st.camera_tasks
                 THEN PollCameras(rest,
                          [camera_tasks |-> DictPop(st.camera_tasks, c),
                           tasks |-> CancelTask(st.tasks, st.camera_tasks[c])])
                 ELSE PollCameras(rest, st)

(* The rows of `select(Camera).where(Camera.detection_enabled == True)`, by id *)
RECURSIVE EnabledCameras(_)
EnabledCameras(n) ==
    IF n = 0 THEN <<>>
    ELSE IF n \in OrchCameras /\ detection_enabled[n]
         THEN Append(EnabledCameras(n - 1), n)
         ELSE EnabledCameras(n - 1)

MaxCameraId == 2

(* _main_loop, lines 73-103: the query returns and the for loop runs *)
MainPoll ==
    /\ main_task = "query"
    /\ LET r == PollCameras(EnabledCameras(MaxCameraId),
                    [camera_tasks |-> camera_tasks, tasks |-> tasks])
       IN /\ Cardinality(DOMAIN r.tasks) <= MaxTasks
          /\ camera_tasks' = r.camera_tasks
          /\ tasks' = r.tasks
    /\ main_task' = "sleep"
    /\ UNCHANGED <<running, stop_pc, detection_enabled, stream_connected,
                   bg_tasks, loop_fault>>
    /\ UNCHANGED outsideOrch

(* _main_loop, lines 107-109: the query raises *)
MainQueryFails ==
    /\ main_task = "query"
    /\ main_task' = "sleep"
    /\ UNCHANGED <<running, stop_pc, camera_tasks, tasks, detection_enabled,
                   stream_connected, bg_tasks, loop_fault>>
    /\ UNCHANGED outsideOrch

(* _main_loop, lines 103 and 70: the 5 s sleep ends and the while condition
   is evaluated *)
MainWake ==
    /\ main_task = "sleep"
    /\ main_task' = IF running THEN "query" ELSE "done"
    /\ UNCHANGED <<running, stop_pc, camera_tasks, tasks, detection_enabled,
                   stream_connected, bg_tasks, loop_fault>>
    /\ UNCHANGED outsideOrch

(* Task id goes to place s and nothing else of the service changes *)
TaskGoes(id, s) ==
    /\ tasks' = [tasks EXCEPT ![id].state = s]
    /\ UNCHANGED <<running, main_task, stop_pc, camera_tasks,
                   detection_enabled, stream_connected, bg_tasks, loop_fault>>
    /\ UNCHANGED outsideOrch

(* _detection_loop, lines 113-119 and 245-265: the query of the user's
   settings returned (ok) or raised, and the session is being closed; the
   helper returns the row's values or None, for which lines 117-119 put the
   defaults *)
LoopSetup(id, ok) ==
    /\ id \in DOMAIN tasks
    /\ tasks[id].state = "setup"
    /\ tasks' = [tasks EXCEPT
                    ![id].state = "setup_close",
                    ![id].cfg = IF ok
                                THEN UserDetectionSettings(
                                         CameraOwner(tasks[id].camera))
                                ELSE DefaultDetectionSettings]
    /\ UNCHANGED <<running, main_task, stop_pc, camera_tasks,
                   detection_enabled, stream_connected, bg_tasks, loop_fault>>
    /\ UNCHANGED outsideOrch

(* Lines 123-127 for task id with the detector as get_detector() returned
   it: load_model with the user's model and device, the user's threshold
   written into the detector, and the VLM settings queried *)
LoopConfigure(id, y) ==
    /\ yolo' = YoloLoadModel(y, tasks[id].cfg.model, tasks[id].cfg.device)
    /\ confidence_threshold' =
          SetThreshold(confidence_threshold, tasks[id].cfg.confidence)
    /\ tasks' = [tasks EXCEPT ![id].state = "configuring"]
    /\ UNCHANGED <<running, main_task, stop_pc, camera_tasks,
                   detection_enabled, stream_connected, bg_tasks, loop_fault>>
    /\ UNCHANGED outsideOrch_Setup

(* Lines 116-127: the session of _get_user_settings is closed and the task
   calls get_detector(), which awaits initialize() when the detector is
   not initialised and returns it at once when it is *)
LoopSetupClosed(id) ==
    /\ id \in DOMAIN tasks
    /\ tasks[id].state = "setup_close"
    /\ IF GetDetector(yolo) = "get_init"
       THEN TaskGoes(id, "initializing")
       ELSE LoopConfigure(id, yolo)

(* yolo_detector.py 138-161 and detection_service.py 122-127: the executor
   job of initialize() is done and get_detector() returns *)
LoopInitialized(id, ok, cuda) ==
    /\ id \in DOMAIN tasks
    /\ tasks[id].state = "initializing"
    /\ LoopConfigure(id, YoloInitialize(yolo, yolo.model_path, ok, cuda))

(* Line 127: the query of the VLM settings returned or raised, the session
   is being closed *)
LoopConfigured(id) ==
    /\ id \in DOMAIN tasks
    /\ tasks[id].state = "configuring"
    /\ TaskGoes(id, "configuring_close")

(* Line 143: the query of the enabled classes returned or raised, the
   session is being closed *)
LoopEnabledClasses(id) ==
    /\ id \in DOMAIN tasks
    /\ tasks[id].state = "classes"
    /\ TaskGoes(id, "classes_close")

(* Lines 154-159: get_frame_async returned None, the task sleeps 0.1 s *)
LoopNoFrame(id) ==
    /\ id \in DOMAIN tasks
    /\ tasks[id].state = "waiting"
    /\ TaskGoes(id, "sleeping")

(* Lines 159-160 and 221: the sleep is over and the next pass begins *)
LoopSlept(id) ==
    /\ id \in DOMAIN tasks
    /\ tasks[id].state = "sleeping"
    /\ TaskGoes(id, LoopTop(tasks[id].camera))

(* The latest exception is one of task id and the task has read a frame
   since *)
FrameReadBy(fault, id) ==
    IF fault.happened /\ fault.task = id
    THEN [fault EXCEPT !.after = TRUE]
    ELSE fault

(* Lines 154-171: a frame arrived and the enabled classes are queried, at
   line 167 first when frame_count is a multiple of 100 (hundredth; the
   loop's frame_count is not followed here) *)
LoopFrame(id, hundredth) ==
    /\ id \in DOMAIN tasks
    /\ tasks[id].state = "waiting"
    /\ tasks' = [tasks EXCEPT
                    ![id].state = IF hundredth THEN "refresh" ELSE "in_db"]
    /\ loop_fault' = FrameReadBy(loop_fault, id)
    /\ UNCHANGED <<running, main_task, stop_pc, camera_tasks,
                   detection_enabled, stream_connected, bg_tasks>>
    /\ UNCHANGED outsideOrch

(* Lines 167 and 171: the query of the enabled classes returned or raised,
   the session is being closed *)
LoopClasses(id) ==
    /\ id \in DOMAIN tasks
    /\ tasks[id].state \in {"refresh", "in_db"}
    /\ TaskGoes(id, IF tasks[id].state = "refresh" THEN "refresh_close"
                    ELSE "in_db_close")

(* An exception that leaves the while loop: the task finishes *)
AfterException_Escapes(c, place) == "done"

(* Where the loop of camera c stands once an exception raised at place has
   been handled:
     "detect"      raised by the inference: caught inside detect
                   (yolo_detector.py 222-224), which returns no objects;
                   the loop takes the continue of line 182
     "save_frame"  raised by _save_frame (334): leaves _process_detections,
                   is caught at line 219 and followed by sleep(1)
     "insert"      raised by db.commit or db.refresh (362, 363): the
                   session is closed on the way to the handler of line 372,
                   after which the for loop goes on *)
AfterException(c, place) ==
    CASE place = "detect" -> LoopTop(c)
      [] place = "save_frame" -> "sleeping"
      [] place = "insert" -> "insert_close"

(* The record of an exception raised at place by task id, or by a
   background task that task id created, and whether task id finishes in
   the step that raises and handles it *)
Fault(id, place) ==
    [happened |-> TRUE, task |-> id, place |-> place,
     ended |-> (tasks[id].state # "done" /\ tasks'[id].state = "done"),
     after |-> FALSE]

(* Task id goes where an exception raised at place leaves it *)
LoopRaises(id, place) ==
    /\ tasks' = [tasks EXCEPT
                    ![id].state = AfterException(tasks[id].camera, place)]
    /\ loop_fault' = Fault(id, place)
    /\ UNCHANGED <<running, main_task, stop_pc, camera_tasks,
                   detection_enabled, stream_connected, bg_tasks>>
    /\ UNCHANGED outsideOrch

(* What follows detect: nothing passes the filters and the loop continues
   (lines 181-195); or _process_detections finds a class group out of
   cooldown and reaches db.commit, with or without a further group behind
   it; or every class is in cooldown and the VLM settings are queried *)
DetectOutcomes == {"continue", "insert", "insert_more", "all_skipped"}

(* Lines 176-207 and 300-362: the executor job of detect returned *)
LoopDetect(id, outcome) ==
    /\ id \in DOMAIN tasks
    /\ tasks[id].state = "detecting"
    /\ tasks' = [tasks EXCEPT
                    ![id].state =
                        CASE outcome = "continue" -> LoopTop(tasks[id].camera)
                          [] outcome = "all_skipped" -> "settings"
                          [] OTHER -> "committing",
                    ![id].more = (outcome = "insert_more")]
    /\ UNCHANGED <<running, main_task, stop_pc, camera_tasks,
                   detection_enabled, stream_connected, bg_tasks, loop_fault>>
    /\ UNCHANGED outsideOrch

(* Lines 176-221: the executor job of detect raised; or it returned and
   _save_frame raised for the first class group that is due *)
LoopDetectRaises(id, place) ==
    /\ id \in DOMAIN tasks
    /\ tasks[id].state = "detecting"
    /\ place \in {"detect", "save_frame"}
    /\ LoopRaises(id, place)

(* Lines 362-363: db.commit returned, the Event is in the table and
   db.refresh is awaited *)
LoopCommit(id) ==
    /\ id \in DOMAIN tasks
    /\ tasks[id].state = "committing"
    /\ tasks' = [tasks EXCEPT ![id].state = "refreshing"]
    /\ UNCHANGED <<running, main_task, stop_pc, camera_tasks,
                   detection_enabled, stream_connected, bg_tasks,
                   loop_fault>>
    /\ UNCHANGED outsideOrch

(* Lines 362-373: db.commit or db.refresh raised *)
LoopInsertRaises(id) ==
    /\ id \in DOMAIN tasks
    /\ tasks[id].state \in {"committing", "refreshing"}
    /\ LoopRaises(id, "insert")

BackgroundIds == 1..MaxBackground

(* asyncio.create_task of an enrichment (line 368) or a safety scan (line
   215) by loop parent: a task of its own that nothing awaits *)
CreateBackground(bg, kind, parent) ==
    LET id == CHOOSE k \in BackgroundIds :
                  /\ k \notin DOMAIN bg
                  /\ \A j \in BackgroundIds : j < k => j \in DOMAIN bg
    IN DictPut(bg, id, [kind |-> kind, parent |-> parent])

(* The model can number one more background task *)
BackgroundIdLeft == Cardinality(DOMAIN bg_tasks) < MaxBackground

(* Lines 363-370: db.refresh returned and the enrichment task is created;
   the session is being closed *)
LoopRefresh(id) ==
    /\ id \in DOMAIN tasks
    /\ tasks[id].state = "refreshing"
    /\ BackgroundIdLeft
    /\ tasks' = [tasks EXCEPT ![id].state = "insert_close"]
    /\ bg_tasks' = CreateBackground(bg_tasks, "enrichment", id)
    /\ UNCHANGED <<running, main_task, stop_pc, camera_tasks,
                   detection_enabled, stream_connected, loop_fault>>
    /\ UNCHANGED outsideOrch

(* Line 207: the query of the VLM settings returned or raised, the session
   is being closed *)
LoopProcess(id) ==
    /\ id \in DOMAIN tasks
    /\ tasks[id].state = "settings"
    /\ TaskGoes(id, "settings_close")

(* Whether detect suspends: without a model it returns no objects at once
   (yolo_detector.py 174-176) *)
DetectorReady(y) == y.initialized /\ y.model # {}

(* What the task does once the session it was closing is closed, up to its
   next await: query the enabled classes (143); the first loop test
   (146-151); the query of line 171; detection (176), after which a
   detector without a model sends the loop to its next pass at once (182) *)
AfterClose(t) ==
    CASE t.state = "configuring_close" -> "classes"
      [] t.state = "classes_close" -> LoopTop(t.camera)
      [] t.state = "refresh_close" -> "in_db"
      [] t.state = "in_db_close" ->
            IF DetectorReady(yolo) THEN "detecting" ELSE LoopTop(t.camera)

(* The close of a session on the normal way out of its block returned *)
LoopSessionClosed(id) ==
    /\ id \in DOMAIN tasks
    /\ tasks[id].state \in {"configuring_close", "classes_close",
                            "refresh_close", "in_db_close"}
    /\ TaskGoes(id, AfterClose(tasks[id]))

(* Lines 311-362 and 207: the session of an insert is closed and the for
   loop goes on: the next class group that is due is saved and its insert
   reaches db.commit, or there is none and the VLM settings are queried *)
LoopInsertClosed(id) ==
    /\ id \in DOMAIN tasks
    /\ tasks[id].state = "insert_close"
    /\ tasks' = [tasks EXCEPT
                    ![id].state = IF tasks[id].more THEN "committing"
                                  ELSE "settings",
                    ![id].more = FALSE]
    /\ UNCHANGED <<running, main_task, stop_pc, camera_tasks,
                   detection_enabled, stream_connected, bg_tasks, loop_fault>>
    /\ UNCHANGED outsideOrch

(* Lines 311-334 and 219-221: the session of an insert is closed and
   _save_frame raises for the next class group that is due *)
LoopNextSaveRaises(id) ==
    /\ id \in DOMAIN tasks
    /\ tasks[id].state = "insert_close"
    /\ tasks[id].more
    /\ tasks' = [tasks EXCEPT
                    ![id].state = AfterException(tasks[id].camera,
                                                 "save_frame"),
                    ![id].more = FALSE]
    /\ loop_fault' = Fault(id, "save_frame")
    /\ UNCHANGED <<running, main_task, stop_pc, camera_tasks,
                   detection_enabled, stream_connected, bg_tasks>>
    /\ UNCHANGED outsideOrch

(* Lines 207-215 and 146-154: the session of _get_vlm_settings is closed;
   when the scan is due (due) a safety-scan task is created; the next pass
   begins *)
LoopSettingsClosed(id, due) ==
    /\ id \in DOMAIN tasks
    /\ tasks[id].state = "settings_close"
    /\ due => BackgroundIdLeft
    /\ tasks' = [tasks EXCEPT ![id].state = LoopTop(tasks[id].camera)]
    /\ bg_tasks' = IF due
                   THEN CreateBackground(bg_tasks, "safety_scan", id)
                   ELSE bg_tasks
    /\ UNCHANGED <<running, main_task, stop_pc, camera_tasks,
                   detection_enabled, stream_connected, loop_fault>>
    /\ UNCHANGED outsideOrch

(* The session of a cancelled task is closed and the task finishes *)
LoopClosed(id) ==
    /\ id \in DOMAIN tasks
    /\ tasks[id].state = "closing"
    /\ TaskGoes(id, "done")

(* _generate_summary_and_notify and _vlm_safety_scan: background task b
   runs to its end *)
BackgroundEnds(b) ==
    /\ b \in DOMAIN bg_tasks
    /\ bg_tasks' = DictPop(bg_tasks, b)
    /\ UNCHANGED <<running, main_task, stop_pc, camera_tasks, tasks,
                   detection_enabled, stream_connected, loop_fault>>
    /\ UNCHANGED outsideOrch

(* _generate_summary_and_notify (line 642) and _vlm_safety_scan (line 975):
   background task b raises; the `except Exception` around its whole body
   logs the exception and the task ends.  The task is one of its own: the
   loop that created it holds no reference to it and never awaits it. *)
BackgroundRaises(b) ==
    /\ b \in DOMAIN bg_tasks
    /\ bg_tasks[b].parent \in DOMAIN tasks
    /\ bg_tasks' = DictPop(bg_tasks, b)
    /\ UNCHANGED <<running, main_task, stop_pc, camera_tasks, tasks,
                   detection_enabled, stream_connected>>
    /\ loop_fault' = Fault(bg_tasks[b].parent, bg_tasks[b].kind)
    /\ UNCHANGED outsideOrch

LoopStep(id) ==
    \/ \E ok \in BOOLEAN : LoopSetup(id, ok)
    \/ LoopSetupClosed(id)
    \/ \E ok, cuda \in BOOLEAN : LoopInitialized(id, ok, cuda)
    \/ LoopConfigured(id)
    \/ LoopEnabledClasses(id)
    \/ LoopNoFrame(id) \/ LoopSlept(id)
    \/ \E hundredth \in BOOLEAN : LoopFrame(id, hundredth)
    \/ LoopClasses(id)
    \/ \E outcome \in DetectOutcomes : LoopDetect(id, outcome)
    \/ LoopCommit(id) \/ LoopRefresh(id)
    \/ LoopProcess(id)
    \/ LoopSessionClosed(id)
    \/ LoopInsertClosed(id)
    \/ \E due \in BOOLEAN : LoopSettingsClosed(id, due)
    \/ LoopClosed(id)

(* The capture thread of the camera's stream handler reaches or leaves
   StreamState.CONNECTED *)
StreamChanges(c) ==
    /\ stream_connected' = [stream_connected EXCEPT ![c] = ~@]
    /\ UNCHANGED <<running, main_task, stop_pc, camera_tasks, tasks,
                   detection_enabled, bg_tasks, loop_fault>>
    /\ UNCHANGED outsideOrch

(* update_camera writes detection_enabled *)
UpdateCamera(c) ==
    /\ detection_enabled' = [detection_enabled EXCEPT ![c] = ~@]
    /\ UNCHANGED <<running, main_task, stop_pc, camera_tasks, tasks,
                   stream_connected, bg_tasks, loop_fault>>
    /\ UNCHANGED outsideOrch

InitOrch ==
    /\ clock = 0
    /\ InitScanVars
    /\ InitCooldownVars
    /\ InitOrchVars
    /\ InitRestVars

TaskIds == 1..MaxTasks

(* The cameras that have a stream handler; the other camera rows have
   detection enabled and no stream, and the poll passes over them *)
StreamedCameras == {1}

NextOrch ==
    \/ Start
    \/ StopBegin
    \/ MainClosed
    \/ StopFinish
    \/ StopIdle
    \/ MainPoll
    \/ MainQueryFails
    \/ MainWake
    \/ \E id \in TaskIds, ok \in BOOLEAN : LoopSetup(id, ok)
    \/ \E id \in TaskIds : LoopSetupClosed(id)
    \/ \E id \in TaskIds, ok, cuda \in BOOLEAN : LoopInitialized(id, ok, cuda)
    \/ \E id \in TaskIds : LoopConfigured(id)
    \/ \E id \in TaskIds : LoopEnabledClasses(id)
    \/ \E id \in TaskIds : LoopNoFrame(id)
    \/ \E id \in TaskIds : LoopSlept(id)
    \/ \E id \in TaskIds, hundredth \in BOOLEAN : LoopFrame(id, hundredth)
    \/ \E id \in TaskIds : LoopClasses(id)
    \/ \E id \in TaskIds, outcome \in DetectOutcomes : LoopDetect(id, outcome)
    \/ \E id \in TaskIds : LoopCommit(id)
    \/ \E id \in TaskIds : LoopRefresh(id)
    \/ \E id \in TaskIds : LoopProcess(id)
    \/ \E id \in TaskIds : LoopSessionClosed(id)
    \/ \E id \in TaskIds : LoopInsertClosed(id)
    \/ \E id \in TaskIds, due \in BOOLEAN : LoopSettingsClosed(id, due)
    \/ \E id \in TaskIds : LoopClosed(id)
    \/ \E b \in BackgroundIds : BackgroundEnds(b)
    \/ \E c \in StreamedCameras : StreamChanges(c)
    \/ \E c \in OrchCameras : UpdateCamera(c)

SpecOrch == InitOrch /\ [][NextOrch]_vars

(* The service and its loops while nothing raises.  The event loop runs
   every task that is ready: the main loop, stop(), every detection loop
   and every background task take their next step,
   and the camera query does not fail for ever.  Streams, camera updates
   and calls of start() and stop() come from outside and are not forced. *)
FairSpecOrch ==
    /\ SpecOrch
    /\ SF_vars(MainPoll)
    /\ WF_vars(MainWake)
    /\ WF_vars(MainClosed)
    /\ WF_vars(StopFinish)
    /\ \A id \in TaskIds : WF_vars(LoopStep(id))
    /\ \A b \in BackgroundIds : WF_vars(BackgroundEnds(b))

(* C9: at most one detection loop task is live (started and not yet
   finished) for any camera, at every moment. *)
C9_AtMostOneLiveLoop ==
    \A c \in OrchCameras : Cardinality(LiveTasks(c)) <= 1

(* A camera is stopped: detection switched off, stream down, or the service
   shut down. *)
CameraStopped(c) ==
    ~detection_enabled[c] \/ ~stream_connected[c] \/ ~running

(* C10: whenever a camera with a live detection loop is stopped (detection
   disabled, stream disconnected or service shut down), the loop eventually
   ends, unless the camera is taken back into service first. *)
C10_StoppedLoopEnds ==
    \A c \in OrchCameras :
        (CameraStopped(c) /\ LiveTasks(c) # {})
            ~> (LiveTasks(c) = {} \/ ~CameraStopped(c))

-----------------------------------------------------------------------------
(* Properties of the safety scan.  "Promoted" is the step at line 903 that
   records the threat cooldown and goes on to persist an Event. *)

NonCritical == {"high", "medium"}

(* C2: no verdict whose reported confidence is below 70 is promoted to event
   creation, whatever its level, type and the pending / cooldown state. *)
C2_ConfidenceFloor ==
    scan.promoted => scan.verdict.confidence >= 70

(* A verdict below the floor met a pending threat of its own type, or was
   critical, and was not promoted. *)
C2_Witness ==
    /\ scan.reached_checks
    /\ scan.verdict.threat_detected
    /\ scan.verdict.confidence < 70
    /\ \/ scan.verdict.threat_level = "critical"
       \/ \E p \in scan.pending_before : p.threat_type = scan.verdict.threat_type
    /\ ~scan.promoted

(* C3: a promoted verdict of level high or medium was preceded, on the same
   camera, by an earlier qualifying verdict (threat reported, confidence >= 70,
   not in cooldown) of the same threat type. *)
C3_TwoObservations ==
    (scan.promoted /\ scan.verdict.threat_level \in NonCritical)
        => scan.verdict.threat_type \in scan.earlier_qualifying

(* A high verdict was promoted as the second observation of its type. *)
C3_Witness ==
    /\ scan.promoted
    /\ scan.verdict.threat_level \in NonCritical
    /\ scan.verdict.threat_type \in scan.earlier_qualifying
    /\ scan.earlier_qualifying # {"fire", "weapon"}

(* C4: the two verdicts that confirm a non-critical threat are consecutive
   scans of the camera: the scan just before the promoted one reported a
   qualifying verdict of the same type. *)
C4_ConsecutiveScans ==
    (scan.promoted /\ scan.verdict.threat_level \in NonCritical)
        => scan.verdict.threat_type \in scan.prev

(* C5: after a verdict for (camera, type) was promoted, no further verdict
   for that pair is promoted within the next 180 seconds, at any level. *)
C5_ThreatCooldown ==
    scan.promoted => \A t \in scan.last_promo : scan.at - t >= 180

(* C6: a critical verdict with confidence >= 85, seen with no pending threat
   and no earlier alert of its type, is promoted in that same scan and is not
   stored as pending. *)
C6_CriticalImmediate ==
    ( /\ scan.reached_checks
      /\ scan.verdict.threat_detected
      /\ scan.verdict.threat_level = "critical"
      /\ scan.verdict.confidence >= 85
      /\ scan.pending_before = {}
      /\ scan.last_promo = {} )
        => /\ scan.promoted
           /\ scan.camera \notin DOMAIN pending_vlm_threats

(* A first critical verdict at 85% or more was promoted at once. *)
C6_Witness ==
    /\ scan.reached_checks
    /\ scan.verdict.threat_detected
    /\ scan.verdict.threat_level = "critical"
    /\ scan.verdict.confidence >= 85
    /\ scan.pending_before = {}
    /\ scan.last_promo = {}
    /\ scan.promoted
    /\ <<scan.camera, scan.verdict.threat_type>> \in DOMAIN vlm_threat_cooldown

(* C7: a pending threat first seen more than 120 seconds ago never confirms
   a later verdict of its type. *)
C7_StalePendingNotUsed ==
    (scan.promoted /\ scan.verdict.threat_level \in NonCritical)
        => \A p \in scan.pending_before :
              p.threat_type = scan.verdict.threat_type
                  => scan.at - p.first_seen <= 120

(* C8: a verdict that passes all checks gets exactly one new Event persisted
   and the Notification Dispatcher is invoked with it. *)
C8_EventAndNotification ==
    scan.promoted => (scan.events_created = 1 /\ scan.notifications = 1)

(* C38: in every state the pending-threat map holds at most one pending
   threat per camera and its stored confirmation count is 1; a qualifying
   non-critical verdict of another threat type than the pending one replaces
   it with a new pending threat of count 1. *)
C38_PendingCountIsOne ==
    /\ DOMAIN pending_vlm_threats \subseteq Cameras
    /\ \A c \in DOMAIN pending_vlm_threats : pending_vlm_threats[c].count = 1
    /\ (/\ scan.happened
        /\ scan.reached_checks
        /\ scan.verdict.threat_level \in NonCritical
        /\ prev_verdict[scan.camera] = {scan.verdict.threat_type}
        /\ \E p \in scan.pending_before :
               p.threat_type # scan.verdict.threat_type)
          => /\ scan.camera \in DOMAIN pending_vlm_threats
             /\ pending_vlm_threats[scan.camera] =
                   [threat_type  |-> scan.verdict.threat_type,
                    threat_level |-> scan.verdict.threat_level,
                    confidence   |-> scan.verdict.confidence,
                    count        |-> 1,
                    first_seen   |-> scan.at]
             /\ ~scan.promoted

(* A pending threat was replaced by one of another type, on a camera whose
   earlier pending threat had been confirmed and removed *)
C38_Witness ==
    /\ scan.happened
    /\ scan.reached_checks
    /\ \E p \in scan.pending_before :
           /\ p.threat_type # scan.verdict.threat_type
           /\ p.count = 1
    /\ scan.camera \in DOMAIN pending_vlm_threats
    /\ pending_vlm_threats[scan.camera].threat_type = scan.verdict.threat_type
    /\ vlm_threat_cooldown # EmptyDict

(* C32: a verdict whose THREAT_DETECTED answer is no, or is missing, is
   never promoted to event creation, whatever threat level and confidence
   the same response reports. *)
C32_NoThreatNeverPromoted ==
    (scan.happened /\ scan.reached_checks /\ ~scan.verdict.threat_detected)
        => ~scan.promoted

(* C33: a critical verdict is promoted from a single observation only if its
   confidence is at least 85: a critical verdict with a lower confidence and
   no earlier qualifying verdict of its threat type on the camera is not
   promoted. *)
C33_CriticalSingleNeedsBypass ==
    (/\ scan.happened
     /\ scan.reached_checks
     /\ scan.verdict.threat_level = "critical"
     /\ scan.verdict.confidence < CriticalBypassConfidence
     /\ scan.verdict.threat_type \notin scan.earlier_qualifying)
        => ~scan.promoted

-----------------------------------------------------------------------------
(* Event enrichment: the insert at the end of _process_detections and the
   _generate_summary_and_notify task it launches.

   A row of the events table:
     heuristic      severity given by _get_severity when the row was inserted
     severity       events.severity now
     summary        events.summary now: {} is NULL, {text} a text
     updates        number of UPDATEs enrichment tasks made to the row
     notifications  number of send_event_notification calls for the row
     notified_at    history: the values `updates` had when
                    send_event_notification was called for the row
     deleted        delete_event has removed the row from the table; what
                    the other fields held at that moment is kept

   A _generate_summary_and_notify task runs from one await to the next in
   one step and is in one of these places:
     "pending"     created, not yet past _get_vlm_settings (line 411)
     "describing"  awaiting vlm.describe_frame (line 508)
     "updating"    awaiting the UPDATE (line 620), inside the session block
     "committing"  awaiting db.commit (line 625)
     "selecting"   awaiting the select of the updated row (line 635)
     "notifying"   awaiting send_event_notification (line 640)
     "closing"     awaiting the close of the session, on the way out of the
                   block or to the handler of line 642
     "done"        finished *)

KnownSeverities == {"low", "medium", "high", "critical"}

(* _get_severity for the detections of one class (the caller groups by
   class, so all of them carry class_name k), which it reads in lower
   case (line 663) *)
GetSeverity(k, count, hour) ==
    LET class == StrLower(k) IN
    IF class \in {"fire", "knife", "gun"} THEN "critical"
    ELSE IF class = "smoke" THEN "high"
    ELSE IF class = "person"
         THEN IF (hour >= 22 \/ hour < 6) \/ count > 1
              THEN "high"
              ELSE "medium"
    ELSE "low"

(* Class names as the models' name tables spell them *)
EnrichClasses == {"fire", "Fire", "SMOKE", "person", "Person", "car"}

EnrichHours == {3, 12}

NewRow(sev) ==
    [heuristic |-> sev, severity |-> sev, summary |-> {}, updates |-> 0,
     notifications |-> 0, notified_at |-> {}, deleted |-> FALSE]

(* Lines 368-370: one fire-and-forget task for the event *)
LaunchEnrichment(ts, ev) ==
    DictPut(ts, Cardinality(DOMAIN ts) + 1,
            [event |-> ev, state |-> "pending", reply |-> {},
             update_raised |-> FALSE])

(* _process_detections, lines 322-363, for one class that passed the
   cooldown: heuristic severity and the insert up to the return of
   db.commit.  A commit that raises leaves no row; one that returns leaves
   the row in the table, and the call awaits db.refresh. *)
CreateEvent(k, count, hour, committed) ==
    /\ Cardinality(DOMAIN event_rows) < MaxEvents
    /\ LET ev == Cardinality(DOMAIN event_rows) + 1 IN
       IF committed
       THEN /\ event_rows' = DictPut(event_rows, ev,
                                     NewRow(GetSeverity(k, count, hour)))
            /\ inserts' = inserts \cup {ev}
       ELSE UNCHANGED <<event_rows, inserts>>
    /\ UNCHANGED enrich_tasks
    /\ UNCHANGED outsideEnrich

(* Lines 363-373: db.refresh returns and the enrichment task is launched,
   or it raises, line 372 catches the exception and there is no launch.
   The refresh of a row that is no longer in the table raises. *)
InsertRefreshed(ev, ok) ==
    /\ ev \in inserts
    /\ ok => ~event_rows[ev].deleted
    /\ inserts' = inserts \ {ev}
    /\ enrich_tasks' = IF ok THEN LaunchEnrichment(enrich_tasks, ev)
                       ELSE enrich_tasks
    /\ UNCHANGED event_rows
    /\ UNCHANGED outsideEnrich

(* What the VLM endpoint does with the request of describe_frame *)
VlmFailures == {"network_error", "timeout", "non_200"}

(* THREAT_LEVEL values a model may write: the four the parser knows
   (line 541), one it does not; Absent: no THREAT_LEVEL field *)
LevelTokens == {"low", "medium", "high", "critical", "severe", Absent}

(* The text of a 200 reply: "", a text in the format asked for, with a
   SUMMARY field and some THREAT_LEVEL or none, or free text without
   fields *)
ReplyBodies ==
    [empty : {FALSE}, has_summary : {TRUE}, level : LevelTokens]
        \cup {[empty |-> FALSE, has_summary |-> FALSE, level |-> Absent],
              [empty |-> TRUE, has_summary |-> FALSE, level |-> Absent]}

VlmReplies ==
    [kind : {"ok"}, body : ReplyBodies]
        \cup [kind : VlmFailures,
              body : {[empty |-> TRUE, has_summary |-> FALSE, level |-> Absent]}]

(* OllamaVLMService.describe_frame: always returns a string.  The string is
   modelled by what the parser can see in it: its text when there is no
   SUMMARY field, whether it has one, and its THREAT_LEVEL token. *)
DescribeFrame(reply) ==
    CASE reply.kind = "ok" ->
            [text |-> IF reply.body.empty THEN "" ELSE "model text",
             has_summary |-> reply.body.has_summary,
             level |-> reply.body.level]
      [] reply.kind = "non_200" ->
            [text |-> "Failed to generate description",
             has_summary |-> FALSE, level |-> Absent]
      [] OTHER ->
            [text |-> "Error generating description",
             has_summary |-> FALSE, level |-> Absent]

(* Lines 511-568: summary and threat level read from the response *)
ParseThreatLevel(response) ==
    IF response.level \in KnownSeverities THEN response.level ELSE "low"

ParseSummary(response) ==
    IF response.has_summary THEN "model summary" ELSE response.text

(* Lines 573-579: severity_map.get(threat_level, EventSeverity.low) *)
SeverityMap(threat_level) ==
    CASE threat_level = "low"      -> "low"
      [] threat_level = "medium"   -> "medium"
      [] threat_level = "high"     -> "high"
      [] threat_level = "critical" -> "critical"
      [] OTHER                     -> "low"

(* Lines 618-625: the UPDATE of the row and its commit; an UPDATE whose
   WHERE finds no row changes nothing *)
CommitUpdate(row, response) ==
    IF row.deleted THEN row
    ELSE [row EXCEPT !.severity = SeverityMap(ParseThreatLevel(response)),
                     !.summary = {ParseSummary(response)},
                     !.updates = @ + 1]

(* Line 640: send_event_notification(updated_event, user_id) *)
SendEventNotification(row) ==
    [row EXCEPT !.notifications = @ + 1,
                !.notified_at = @ \cup {row.updates}]

(* Every return value of describe_frame taken for a response *)
HasResponse_Always(response) == TRUE

(* Line 510: `if response:` *)
HasResponse(response) == response.text # ""

(* The reply task t got from the VLM endpoint *)
DoneWith(t) ==
    CHOOSE r \in enrich_tasks[t].reply : TRUE

(* A task that goes on to the select and the notification whatever became
   of the commit *)
AfterCommit_GoesOn(ok) == "selecting"

(* Lines 625-642: db.commit returned and the select follows, or it raised
   and the session is closed on the way to the handler of line 642 *)
AfterCommit(ok) == IF ok THEN "selecting" ELSE "closing"

(* Lines 409-508: the VLM settings are there, the prompt is built and
   describe_frame is called *)
EnrichStart(t) ==
    /\ t \in DOMAIN enrich_tasks
    /\ enrich_tasks[t].state = "pending"
    /\ enrich_tasks' = [enrich_tasks EXCEPT ![t].state = "describing"]
    /\ UNCHANGED <<event_rows, inserts>>
    /\ UNCHANGED outsideEnrich

(* Lines 508-620: describe_frame returned; with a response the UPDATE is
   sent, without one the task is over.  The task keeps, as history, the
   reply it got. *)
EnrichDescribed(t, reply) ==
    /\ t \in DOMAIN enrich_tasks
    /\ enrich_tasks[t].state = "describing"
    /\ enrich_tasks' =
          [enrich_tasks EXCEPT
              ![t].reply = {reply},
              ![t].state = IF HasResponse(DescribeFrame(reply))
                           THEN "updating" ELSE "done"]
    /\ UNCHANGED <<event_rows, inserts>>
    /\ UNCHANGED outsideEnrich

(* Lines 620-625: the UPDATE returned and db.commit is awaited, or it
   raised.  The task keeps, as history, whether its UPDATE or commit
   raised. *)
EnrichUpdated(t, ok) ==
    /\ t \in DOMAIN enrich_tasks
    /\ enrich_tasks[t].state = "updating"
    /\ enrich_tasks' =
          [enrich_tasks EXCEPT
              ![t].state = IF ok THEN "committing" ELSE "closing",
              ![t].update_raised = ~ok]
    /\ UNCHANGED <<event_rows, inserts>>
    /\ UNCHANGED outsideEnrich

(* Lines 625-635: db.commit returned, the row carries the update and is
   selected again; or db.commit raised and the row is as it was *)
EnrichCommitted(t, ok) ==
    /\ t \in DOMAIN enrich_tasks
    /\ enrich_tasks[t].state = "committing"
    /\ LET ev       == enrich_tasks[t].event
           response == DescribeFrame(DoneWith(t))
       IN event_rows' =
             IF ok
             THEN [event_rows EXCEPT
                      ![ev] = CommitUpdate(event_rows[ev], response)]
             ELSE event_rows
    /\ enrich_tasks' =
          [enrich_tasks EXCEPT ![t].state = AfterCommit(ok),
                               ![t].update_raised = ~ok]
    /\ UNCHANGED inserts
    /\ UNCHANGED outsideEnrich

(* Lines 635-640: the select returned the row and
   send_event_notification is called with it; or it returned no row (the
   Event has been deleted) and the block is left without a call; or the
   select raised *)
EnrichSelected(t, ok) ==
    /\ t \in DOMAIN enrich_tasks
    /\ enrich_tasks[t].state = "selecting"
    /\ LET ev    == enrich_tasks[t].event
           found == ok /\ ~event_rows[ev].deleted
       IN /\ event_rows' =
                IF found
                THEN [event_rows EXCEPT
                         ![ev] = SendEventNotification(event_rows[ev])]
                ELSE event_rows
          /\ enrich_tasks' =
                [enrich_tasks EXCEPT
                    ![t].state = IF found THEN "notifying" ELSE "closing"]
    /\ UNCHANGED inserts
    /\ UNCHANGED outsideEnrich

(* Line 640: send_event_notification returned or raised; the session is
   being closed *)
EnrichNotified(t) ==
    /\ t \in DOMAIN enrich_tasks
    /\ enrich_tasks[t].state = "notifying"
    /\ enrich_tasks' = [enrich_tasks EXCEPT ![t].state = "closing"]
    /\ UNCHANGED <<event_rows, inserts>>
    /\ UNCHANGED outsideEnrich

(* Lines 618 and 642: the session is closed; the task returns, or the
   handler logs the exception and the task returns *)
EnrichClosed(t) ==
    /\ t \in DOMAIN enrich_tasks
    /\ enrich_tasks[t].state = "closing"
    /\ enrich_tasks' = [enrich_tasks EXCEPT ![t].state = "done"]
    /\ UNCHANGED <<event_rows, inserts>>
    /\ UNCHANGED outsideEnrich

(* api/routes/events.py, delete_event, lines 607-635: the row of the
   caller's Event ev is selected and deleted, and the commit returns *)
DeleteEvent(ev) ==
    /\ ev \in DOMAIN event_rows
    /\ ~event_rows[ev].deleted
    /\ event_rows' = [event_rows EXCEPT ![ev].deleted = TRUE]
    /\ UNCHANGED <<enrich_tasks, inserts>>
    /\ UNCHANGED outsideEnrich

(* _generate_summary_and_notify for task t, from one await to the next *)
GenerateSummaryAndNotify(t) ==
    \/ EnrichStart(t)
    \/ \E reply \in VlmReplies : EnrichDescribed(t, reply)
    \/ \E ok \in BOOLEAN : EnrichUpdated(t, ok)
    \/ \E ok \in BOOLEAN : EnrichCommitted(t, ok)
    \/ \E ok \in BOOLEAN : EnrichSelected(t, ok)
    \/ EnrichNotified(t)
    \/ EnrichClosed(t)

EnrichTaskIds == 1..(2 * MaxEvents)

(* The Events a user deletes: the first one, at any moment of its life and
   of the other's (a bound of the model, not of the program) *)
DeletedEvents == {1}

InitEnrich ==
    /\ clock = 0
    /\ InitScanVars
    /\ InitCooldownVars
    /\ InitOrchVars
    /\ InitRestVars

NextEnrich ==
    \/ \E k \in EnrichClasses, count \in 1..2, hour \in EnrichHours,
          committed \in BOOLEAN : CreateEvent(k, count, hour, committed)
    \/ \E ev \in 1..MaxEvents, ok \in BOOLEAN : InsertRefreshed(ev, ok)
    \/ \E t \in EnrichTaskIds : EnrichStart(t)
    \/ \E t \in EnrichTaskIds, reply \in VlmReplies : EnrichDescribed(t, reply)
    \/ \E t \in EnrichTaskIds, ok \in BOOLEAN : EnrichUpdated(t, ok)
    \/ \E t \in EnrichTaskIds, ok \in BOOLEAN : EnrichCommitted(t, ok)
    \/ \E t \in EnrichTaskIds, ok \in BOOLEAN : EnrichSelected(t, ok)
    \/ \E t \in EnrichTaskIds : EnrichNotified(t)
    \/ \E t \in EnrichTaskIds : EnrichClosed(t)
    \/ \E ev \in DeletedEvents : DeleteEvent(ev)

SpecEnrich == InitEnrich /\ [][NextEnrich]_vars

TasksOf(ev) == {t \in DOMAIN enrich_tasks : enrich_tasks[t].event = ev}

(* C11: every Event the detection loop created has exactly one enrichment
   task, launched once its insert is over (db.refresh has returned or
   raised), and never more than one; and no Event is updated more than
   once by enrichment. *)
C11_ExactlyOneEnrichment ==
    \A ev \in DOMAIN event_rows :
        /\ Cardinality(TasksOf(ev)) <= 1
        /\ ev \notin inserts => Cardinality(TasksOf(ev)) = 1
        /\ event_rows[ev].updates <= 1

(* C12: when the VLM call of an Event's enrichment fails (network error,
   timeout, non-200), the Event keeps its heuristic severity and its null
   summary. *)
C12_FailedEnrichmentKeepsEvent ==
    \A t \in DOMAIN enrich_tasks :
        (enrich_tasks[t].state = "done" /\ DoneWith(t).kind \in VlmFailures)
            => LET row == event_rows[enrich_tasks[t].event] IN
               /\ row.severity = row.heuristic
               /\ row.summary = {}

(* C13: when the enrichment response has no THREAT_LEVEL field or one
   outside {low, medium, high, critical}, the Event's severity after the
   enrichment update is its heuristic severity. *)
C13_UnknownLevelKeepsSeverity ==
    \A t \in DOMAIN enrich_tasks :
        LET row == event_rows[enrich_tasks[t].event] IN
        (/\ enrich_tasks[t].state = "done"
         /\ DoneWith(t).kind = "ok"
         /\ DoneWith(t).body.level \notin KnownSeverities
         /\ row.updates = 1)
            => row.severity = row.heuristic

(* C29: the dispatcher is called at most once for a detection-originated
   Event, and only after the single enrichment update of that Event was
   committed: every call saw the row with exactly one update. *)
C29_NotifyOnceAfterUpdate ==
    \A ev \in DOMAIN event_rows :
        /\ event_rows[ev].notifications <= 1
        /\ event_rows[ev].notified_at \subseteq {1}
        /\ (event_rows[ev].notifications = 1 => event_rows[ev].summary # {})

(* An Event that was updated and notified, next to one whose task ended
   without a notification *)
C29_Witness ==
    \E e1, e2 \in DOMAIN event_rows :
        /\ event_rows[e1].notifications = 1
        /\ event_rows[e1].notified_at = {1}
        /\ event_rows[e2].notifications = 0
        /\ \E t \in TasksOf(e2) : enrich_tasks[t].state = "done"

(* C34: no notification is sent for an Event whose enrichment got an empty
   response from the VLM, or whose enrichment update raised, whatever the
   Event's heuristic severity. *)
C34_NoEnrichmentNoNotification ==
    \A t \in DOMAIN enrich_tasks :
        (/\ enrich_tasks[t].state = "done"
         /\ \/ DoneWith(t).kind = "ok" /\ DoneWith(t).body.empty
            \/ enrich_tasks[t].update_raised)
            => event_rows[enrich_tasks[t].event].notifications = 0

(* Two Events of heuristic severity critical: the enrichment of one got an
   empty response, the update of the other raised *)
C34_Witness ==
    \E t1, t2 \in DOMAIN enrich_tasks :
        /\ enrich_tasks[t1].state = "done"
        /\ DoneWith(t1).kind = "ok" /\ DoneWith(t1).body.empty
        /\ event_rows[enrich_tasks[t1].event].heuristic = "critical"
        /\ enrich_tasks[t2].state = "done"
        /\ enrich_tasks[t2].update_raised
        /\ event_rows[enrich_tasks[t2].event].heuristic = "critical"
        /\ event_rows[enrich_tasks[t2].event].notifications = 0

-----------------------------------------------------------------------------
(* RTSPStreamHandler: one handler, its capture threads, its video source and
   its consumers.

   A capture thread (_capture_loop) is at one of these places:
     "top"        about to test `while self._running` (line 72)
     "open"       in cv2.VideoCapture(url) (lines 75-84)
     "read"       about to test the inner while (line 99)
     "reading"    in cap.read() (line 100)
     "enq_check"  holds a frame, about to test _frame_queue.full() (118)
     "enq_get"    saw the queue full, about to call get_nowait() (119)
     "enq_put"    about to call put_nowait(frame) (120)
     "after"      left the try block, about to test `if self._running` (143)
     "reconnect"  in the reconnect wait (148-151)
     "exiting"    left the outer while, about to write STOPPED (153)
     "exited"     finished
   A thread that is blocked in the source ("open" or "reading") is a thread
   that does not take its next step for a while.  A thread also carries the
   number of times it has connected (history, counted up to 2).  Frames are numbered in the order
   the source delivered them.

   A call of stop() is at one of these places:
     "idle"       no call is under way
     "joining"    the flag is cleared (178) and the call is in
                  self._thread.join(timeout=5) (180)
     "draining"   the thread is forgotten (181), about to test
                  _frame_queue.empty() (184)
     "drain_get"  saw the queue not empty, about to call get_nowait() (186)
   stop() never awaits, so the event loop runs nothing else while a call is
   under way; the capture threads and the executor threads of
   get_frame_async do run. *)

(* settings.stream_buffer_size, scaled down from its default of 10 *)
buffer_size == 2

Producing ==
    {"read", "reading", "enq_check", "enq_get", "enq_put", "enq_put_full"}

AliveThreads == {t \in DOMAIN cap_threads : cap_threads[t].pc # "exited"}

ProducingThreads == {t \in DOMAIN cap_threads : cap_threads[t].pc \in Producing}

AtPc(t, pc) == t \in DOMAIN cap_threads /\ cap_threads[t].pc = pc

Goto(t, pc) == [cap_threads EXCEPT ![t].pc = pc]

(* A get that leaves the frame in the queue *)
QueueGet_Peek(q) ==
    IF q = <<>> THEN [item |-> {}, rest |-> q]
    ELSE [item |-> {Head(q)}, rest |-> q]

(* Queue.get_nowait() / Queue.get(timeout): the head of the FIFO queue *)
QueueGet(q) ==
    IF q = <<>> THEN [item |-> {}, rest |-> q]
    ELSE [item |-> {Head(q)}, rest |-> Tail(q)]

(* start(), lines 159-164; the wait for the first connection changes
   nothing.  stop() does not await, so no start() runs inside a stop(). *)
HandlerStart ==
    /\ h_stop_pc = "idle"
    /\ ~h_running
    /\ Cardinality(DOMAIN cap_threads) < MaxThreads
    /\ h_running' = TRUE
    /\ LET t == Cardinality(DOMAIN cap_threads) + 1 IN
       /\ cap_threads' = DictPut(cap_threads, t,
                                 [pc |-> "top", frame |-> 0, opens |-> 0])
       /\ h_thread' = {t}
    /\ UNCHANGED <<h_state, h_stop_pc, source_up, frame_queue, frames_read,
                   stopped_ever, last_get, last_arrival>>
    /\ UNCHANGED outsideStream

(* stop(), lines 178-180: clear the flag and join the thread for up to 5 s *)
HandlerStopBegin ==
    /\ h_stop_pc = "idle"
    /\ h_running' = FALSE
    /\ h_stop_pc' = "joining"
    /\ stopped_ever' = TRUE
    /\ UNCHANGED <<h_state, h_thread, cap_threads, source_up, frame_queue,
                   frames_read, last_get, last_arrival>>
    /\ UNCHANGED outsideStream

(* Where a capture thread can stay longer than the 5 s of the join: in the
   source.  Everywhere else it reaches line 72 within a second. *)
Blocking == {"open", "reading"}

(* stop(), lines 180-181: the join returns, because the thread has finished
   (joined) or because the 5 s are over while the thread is blocked, and
   the thread is forgotten; the queue is emptied next.  A thread that
   outlived the join runs on while stop() empties the queue. *)
HandlerStopJoined(joined) ==
    /\ h_stop_pc = "joining"
    /\ IF joined
       THEN \A t \in h_thread : cap_threads[t].pc = "exited"
       ELSE \E t \in h_thread : cap_threads[t].pc \in Blocking
    /\ h_thread' = {}
    /\ h_stop_pc' = "draining"
    /\ UNCHANGED <<h_running, h_state, cap_threads, source_up, frame_queue,
                   frames_read, stopped_ever, last_get, last_arrival>>
    /\ UNCHANGED outsideStream

(* stop(), line 184: `while not self._frame_queue.empty()`; stop() returns
   when the queue is empty at the test *)
HandlerStopEmpty ==
    /\ h_stop_pc = "draining"
    /\ h_stop_pc' = IF frame_queue = <<>> THEN "idle" ELSE "drain_get"
    /\ UNCHANGED <<h_running, h_state, h_thread, cap_threads, source_up,
                   frame_queue, frames_read, stopped_ever, last_get,
                   last_arrival>>
    /\ UNCHANGED outsideStream

(* stop(), lines 185-188: get_nowait() takes the head of the queue and the
   loop goes back to its test; when another thread took the last frame
   since the test, Empty is caught and the break ends stop() *)
HandlerStopGet ==
    /\ h_stop_pc = "drain_get"
    /\ frame_queue' = QueueGet(frame_queue).rest
    /\ h_stop_pc' = IF frame_queue = <<>> THEN "idle" ELSE "draining"
    /\ UNCHANGED <<h_running, h_state, h_thread, cap_threads, source_up,
                   frames_read, stopped_ever, last_get, last_arrival>>
    /\ UNCHANGED outsideStream

(* Line 72 without lines 75-76: the state is not set to CONNECTING *)
ThreadTop_NoConnecting(t) ==
    /\ AtPc(t, "top")
    /\ cap_threads' = Goto(t, IF h_running THEN "open" ELSE "exiting")
    /\ UNCHANGED <<h_running, h_state, h_thread, h_stop_pc, source_up,
                   frame_queue, frames_read, stopped_ever, last_get,
                   last_arrival>>
    /\ UNCHANGED outsideStream

(* Line 72 and 75-76: the outer while test *)
ThreadTop(t) ==
    /\ AtPc(t, "top")
    /\ IF h_running
       THEN /\ h_state' = "connecting"
            /\ cap_threads' = Goto(t, "open")
       ELSE /\ cap_threads' = Goto(t, "exiting")
            /\ UNCHANGED h_state
    /\ UNCHANGED <<h_running, h_thread, h_stop_pc, source_up, frame_queue,
                   frames_read, stopped_ever, last_get, last_arrival>>
    /\ UNCHANGED outsideStream

(* Lines 80-95 and 131-140: the open succeeds, or it fails and the handler
   goes to ERROR *)
ThreadOpen(t) ==
    /\ AtPc(t, "open")
    /\ IF source_up
       THEN /\ h_state' = "connected"
            /\ cap_threads' = [cap_threads EXCEPT
                                  ![t].pc = "read",
                                  ![t].opens = IF @ < 2 THEN @ + 1 ELSE @]
       ELSE /\ h_state' = "error"
            /\ cap_threads' = Goto(t, "after")
    /\ UNCHANGED <<h_running, h_thread, h_stop_pc, source_up, frame_queue,
                   frames_read, stopped_ever, last_get, last_arrival>>
    /\ UNCHANGED outsideStream

(* Line 99: the inner while test (the capture stays open until line 139) *)
ThreadRead(t) ==
    /\ AtPc(t, "read")
    /\ cap_threads' = Goto(t, IF h_running THEN "reading" ELSE "after")
    /\ UNCHANGED <<h_running, h_state, h_thread, h_stop_pc, source_up,
                   frame_queue, frames_read, stopped_ever, last_get,
                   last_arrival>>
    /\ UNCHANGED outsideStream

(* What a call of cap.read() on a source that is up can do *)
ReadOutcomes == {"frame", "early", "raises"}

(* Lines 100-114 and 131-135: cap.read() returns.  A failed read (source
   down) leaves the inner loop without touching the state; a frame that
   comes too early for the target rate is dropped (continue), as are the
   frames after the MaxFrames-th; an exception puts the handler in ERROR.
   self._running is not looked at between the read and the enqueue. *)
ThreadReading(t, outcome) ==
    /\ AtPc(t, "reading")
    /\ IF ~source_up
       THEN /\ cap_threads' = Goto(t, "after")
            /\ UNCHANGED <<frames_read, h_state>>
       ELSE IF outcome = "raises"
       THEN /\ cap_threads' = Goto(t, "after")
            /\ h_state' = "error"
            /\ UNCHANGED frames_read
       ELSE IF outcome = "early" \/ frames_read = MaxFrames
       THEN /\ cap_threads' = Goto(t, "read")
            /\ UNCHANGED <<frames_read, h_state>>
       ELSE /\ frames_read' = frames_read + 1
            /\ cap_threads' = [cap_threads EXCEPT
                                  ![t].pc = "enq_check",
                                  ![t].frame = frames_read + 1]
            /\ UNCHANGED h_state
    /\ UNCHANGED <<h_running, h_thread, h_stop_pc, source_up,
                   frame_queue, stopped_ever, last_get, last_arrival>>
    /\ UNCHANGED outsideStream

(* Line 118: if self._frame_queue.full() *)
ThreadEnqCheck(t) ==
    /\ AtPc(t, "enq_check")
    /\ cap_threads' = Goto(t, IF Len(frame_queue) >= buffer_size
                              THEN "enq_get" ELSE "enq_put")
    /\ UNCHANGED <<h_running, h_state, h_thread, h_stop_pc, source_up,
                   frame_queue, frames_read, stopped_ever, last_get,
                   last_arrival>>
    /\ UNCHANGED outsideStream

(* Line 119: get_nowait() removes the oldest frame; on an empty queue it
   raises Empty, which line 121 swallows together with the new frame *)
ThreadEnqGet(t) ==
    /\ AtPc(t, "enq_get")
    /\ IF frame_queue = <<>>
       THEN /\ cap_threads' = [cap_threads EXCEPT
                                  ![t].pc = "read", ![t].frame = 0]
            /\ last_arrival' = [happened |-> TRUE, saw_full |-> TRUE,
                                kept |-> FALSE]
            /\ UNCHANGED frame_queue
       ELSE /\ frame_queue' = Tail(frame_queue)
            /\ cap_threads' = Goto(t, "enq_put_full")
            /\ UNCHANGED last_arrival
    /\ UNCHANGED <<h_running, h_state, h_thread, h_stop_pc, source_up,
                   frames_read, stopped_ever, last_get>>
    /\ UNCHANGED outsideStream

(* Line 120: put_nowait(frame); on a full queue it raises Full, which line
   121 swallows together with the new frame *)
ThreadEnqPut(t) ==
    /\ t \in DOMAIN cap_threads
    /\ cap_threads[t].pc \in {"enq_put", "enq_put_full"}
    /\ LET fits == Len(frame_queue) < buffer_size IN
       /\ frame_queue' = IF fits
                         THEN Append(frame_queue, cap_threads[t].frame)
                         ELSE frame_queue
       /\ last_arrival' = [happened |-> TRUE,
                           saw_full |-> cap_threads[t].pc = "enq_put_full",
                           kept |-> fits]
    /\ cap_threads' = [cap_threads EXCEPT ![t].pc = "read", ![t].frame = 0]
    /\ UNCHANGED <<h_running, h_state, h_thread, h_stop_pc, source_up,
                   frames_read, stopped_ever, last_get>>
    /\ UNCHANGED outsideStream

(* Lines 143-146: if self._running, go to RECONNECTING *)
ThreadAfter_GiveUp(t) ==
    /\ AtPc(t, "after")
    /\ cap_threads' = Goto(t, "exiting")
    /\ UNCHANGED <<h_running, h_state, h_thread, h_stop_pc, source_up,
                   frame_queue, frames_read, stopped_ever, last_get,
                   last_arrival>>
    /\ UNCHANGED outsideStream

ThreadAfter(t) ==
    /\ AtPc(t, "after")
    /\ IF h_running
       THEN /\ h_state' = "reconnecting"
            /\ cap_threads' = Goto(t, "reconnect")
       ELSE /\ cap_threads' = Goto(t, "top")
            /\ UNCHANGED h_state
    /\ UNCHANGED <<h_running, h_thread, h_stop_pc, source_up, frame_queue,
                   frames_read, stopped_ever, last_get, last_arrival>>
    /\ UNCHANGED outsideStream

(* Lines 148-151: the reconnect delay is over, or the flag was cleared *)
ThreadReconnect(t) ==
    /\ AtPc(t, "reconnect")
    /\ cap_threads' = Goto(t, "top")
    /\ UNCHANGED <<h_running, h_state, h_thread, h_stop_pc, source_up,
                   frame_queue, frames_read, stopped_ever, last_get,
                   last_arrival>>
    /\ UNCHANGED outsideStream

(* Lines 153-155 *)
ThreadExit(t) ==
    /\ AtPc(t, "exiting")
    /\ h_state' = "stopped"
    /\ cap_threads' = Goto(t, "exited")
    /\ UNCHANGED <<h_running, h_thread, h_stop_pc, source_up, frame_queue,
                   frames_read, stopped_ever, last_get, last_arrival>>
    /\ UNCHANGED outsideStream

ThreadStep(t) ==
    \/ ThreadTop(t)
    \/ ThreadOpen(t)
    \/ ThreadRead(t)
    \/ \E o \in ReadOutcomes : ThreadReading(t, o)
    \/ ThreadEnqCheck(t)
    \/ ThreadEnqGet(t)
    \/ ThreadEnqPut(t)
    \/ ThreadAfter(t)
    \/ ThreadReconnect(t)
    \/ ThreadExit(t)

(* get_frame() and get_frame_async(): one Queue.get; None when it is empty
   (for get_frame_async: still empty when the timeout ends) *)
GetFrame ==
    /\ LET r == QueueGet(frame_queue) IN
       /\ frame_queue' = r.rest
       /\ last_get' = [happened |-> TRUE, returned |-> r.item,
                       newest |-> IF frame_queue = <<>> THEN {}
                                  ELSE {frame_queue[Len(frame_queue)]}]
    /\ UNCHANGED <<h_running, h_state, h_thread, h_stop_pc, cap_threads,
                   source_up, frames_read, stopped_ever, last_arrival>>
    /\ UNCHANGED outsideStream

(* The camera or the network goes away or comes back *)
SourceChanges ==
    /\ source_up' = ~source_up
    /\ UNCHANGED <<h_running, h_state, h_thread, h_stop_pc, cap_threads,
                   frame_queue, frames_read, stopped_ever, last_get,
                   last_arrival>>
    /\ UNCHANGED outsideStream

ThreadIds == 1..MaxThreads

InitStream ==
    /\ clock = 0
    /\ InitScanVars
    /\ InitCooldownVars
    /\ InitOrchVars
    /\ InitRestVars

NextStream ==
    \/ HandlerStart
    \/ HandlerStopBegin
    \/ \E joined \in BOOLEAN : HandlerStopJoined(joined)
    \/ HandlerStopEmpty
    \/ HandlerStopGet
    \/ \E t \in ThreadIds : ThreadTop(t)
    \/ \E t \in ThreadIds : ThreadOpen(t)
    \/ \E t \in ThreadIds : ThreadRead(t)
    \/ \E t \in ThreadIds, o \in ReadOutcomes : ThreadReading(t, o)
    \/ \E t \in ThreadIds : ThreadEnqCheck(t)
    \/ \E t \in ThreadIds : ThreadEnqGet(t)
    \/ \E t \in ThreadIds : ThreadEnqPut(t)
    \/ \E t \in ThreadIds : ThreadAfter(t)
    \/ \E t \in ThreadIds : ThreadReconnect(t)
    \/ \E t \in ThreadIds : ThreadExit(t)
    \/ GetFrame
    \/ SourceChanges

SpecStream == InitStream /\ [][NextStream]_vars

(* Every capture thread that can take a step takes one: the operating
   system schedules it and the source does not block for ever.  The source,
   the consumers and the callers of start() and stop() are not forced. *)
FairSpecStream ==
    /\ SpecStream
    /\ \A t \in ThreadIds : WF_vars(ThreadStep(t))

(* A handler that is started once and never stopped: its capture thread,
   its source and its consumers *)
NextCapture ==
    \/ HandlerStart
    \/ \E t \in ThreadIds : ThreadTop(t)
    \/ \E t \in ThreadIds : ThreadOpen(t)
    \/ \E t \in ThreadIds : ThreadRead(t)
    \/ \E t \in ThreadIds, o \in ReadOutcomes : ThreadReading(t, o)
    \/ \E t \in ThreadIds : ThreadEnqCheck(t)
    \/ \E t \in ThreadIds : ThreadEnqGet(t)
    \/ \E t \in ThreadIds : ThreadEnqPut(t)
    \/ \E t \in ThreadIds : ThreadAfter(t)
    \/ \E t \in ThreadIds : ThreadReconnect(t)
    \/ GetFrame
    \/ SourceChanges

SpecCapture == InitStream /\ [][NextCapture]_vars

(* The steps of a capture thread while its handler is not stopped *)
CaptureStep(t) ==
    \/ ThreadTop(t)
    \/ ThreadOpen(t)
    \/ ThreadRead(t)
    \/ \E o \in ReadOutcomes : ThreadReading(t, o)
    \/ ThreadEnqCheck(t)
    \/ ThreadEnqGet(t)
    \/ ThreadEnqPut(t)
    \/ ThreadAfter(t)
    \/ ThreadReconnect(t)

(* The capture thread is scheduled and the source does not block for ever;
   the source and the consumers are not forced. *)
FairSpecCapture ==
    /\ SpecCapture
    /\ \A t \in ThreadIds : WF_vars(CaptureStep(t))

NeverStopped == h_running /\ ~stopped_ever

(* C14: for a started handler that is not stopped, whenever the source is up
   (again) and the handler is not connected, the handler eventually is
   connected, by its one capture thread and with no call from outside,
   unless the source fails again or the handler is stopped first. *)
C14_Reconnects ==
    (NeverStopped /\ source_up /\ h_state # "connected")
        ~> \/ /\ h_state = "connected"
              /\ AliveThreads = h_thread
              /\ Cardinality(AliveThreads) = 1
           \/ ~source_up
           \/ stopped_ever

C14_Witness ==
    /\ NeverStopped
    /\ h_state = "connected"
    /\ \E t \in h_thread : cap_threads[t].opens = 2 /\ cap_threads[t].pc = "read"

(* C15: over any sequence of start() and stop() calls on one handler, at
   most one capture thread is alive and enqueuing frames at any time. *)
C15_SingleProducer ==
    Cardinality(ProducingThreads) <= 1

(* C16: get_frame() and get_frame_async() return the most recently enqueued
   frame of those buffered. *)
C16_NewestReturned ==
    last_get.happened => last_get.returned = last_get.newest

(* C17: the buffer never holds more than buffer_size frames, and a frame
   that arrives while the buffer is full is kept (the oldest one makes room
   for it), under any interleaving with consumers. *)
C17_BoundedNewestKept ==
    /\ Len(frame_queue) <= buffer_size
    /\ (last_arrival.happened /\ last_arrival.saw_full /\ ~stopped_ever)
          => last_arrival.kept

-----------------------------------------------------------------------------
(* StreamManager: add_stream, remove_stream and stop_all, called
   concurrently by coroutines of the one event loop.

   A handler is [camera, running]: the camera id it was created for and its
   should-run flag (RTSPStreamHandler._running).
   A call is at one of these places:
     "waiting"   at `async with self._lock`, the lock not yet acquired
     "starting"  add_stream only: in `await handler.start()`, holding the lock
     "done"      returned
   RTSPStreamHandler.stop() has no await in it, so remove_stream and
   stop_all run from the acquisition of the lock to its release in one
   step, and so does add_stream up to the first sleep in handler.start(). *)

ManagerCameras == {1, 2}

ManagerOps == {"add_stream", "remove_stream", "stop_all"}

(* RTSPStreamHandler.stop(), line 178, on handler id *)
StopHandler_Skip(hs, id) == hs

StopHandler(hs, id) == [hs EXCEPT ![id].running = FALSE]

(* stop_all, lines 283-284: stop every registered handler *)
StopRegistered(hs, reg) ==
    [id \in DOMAIN hs |->
        IF \E c \in DOMAIN reg : reg[c] = id
        THEN StopHandler(hs, id)[id]
        ELSE hs[id]]

(* A coroutine calls one of the three operations and reaches the lock *)
Invoke(op, c) ==
    /\ Cardinality(DOMAIN calls) < MaxCalls
    /\ calls' = DictPut(calls, Cardinality(DOMAIN calls) + 1,
                        [op |-> op, camera |-> c, pc |-> "waiting",
                         returned |-> {}, registered |-> {}])
    /\ UNCHANGED <<streams, handlers, lock_holder>>
    /\ UNCHANGED outsideManager

(* add_stream, lines 247-257: lock acquired, the existing handler stopped,
   the new one created, registered and started *)
AddStreamBegin(k) ==
    /\ k \in DOMAIN calls
    /\ calls[k].op = "add_stream" /\ calls[k].pc = "waiting"
    /\ lock_holder = {}
    /\ Cardinality(DOMAIN handlers) < MaxHandlers
    /\ LET c   == calls[k].camera
           id  == Cardinality(DOMAIN handlers) + 1
           old == IF c \in DOMAIN streams
                  THEN StopHandler(handlers, streams[c])
                  ELSE handlers
       IN /\ handlers' = DictPut(old, id, [camera |-> c, running |-> TRUE])
          /\ streams' = DictPut(streams, c, id)
          /\ calls' = [calls EXCEPT ![k].pc = "starting",
                                    ![k].returned = {id}]
    /\ lock_holder' = {k}
    /\ UNCHANGED outsideManager

(* add_stream, lines 257-259: handler.start() returns, the lock is
   released, the handler is returned.  registered: the handler found under
   the camera id at that moment (history). *)
AddStreamEnd(k) ==
    /\ k \in DOMAIN calls
    /\ calls[k].pc = "starting"
    /\ lock_holder = {k}
    /\ lock_holder' = {}
    /\ calls' = [calls EXCEPT
                    ![k].pc = "done",
                    ![k].registered =
                        IF calls[k].camera \in DOMAIN streams
                        THEN {streams[calls[k].camera]} ELSE {}]
    /\ UNCHANGED <<streams, handlers>>
    /\ UNCHANGED outsideManager

(* remove_stream, lines 263-266 *)
RemoveStream(k) ==
    /\ k \in DOMAIN calls
    /\ calls[k].op = "remove_stream" /\ calls[k].pc = "waiting"
    /\ lock_holder = {}
    /\ LET c == calls[k].camera IN
       IF c \in DOMAIN streams
       THEN /\ handlers' = StopHandler(handlers, streams[c])
            /\ streams' = DictPop(streams, c)
       ELSE UNCHANGED <<streams, handlers>>
    /\ calls' = [calls EXCEPT ![k].pc = "done"]
    /\ UNCHANGED lock_holder
    /\ UNCHANGED outsideManager

(* stop_all, lines 282-285 *)
StopAll(k) ==
    /\ k \in DOMAIN calls
    /\ calls[k].op = "stop_all" /\ calls[k].pc = "waiting"
    /\ lock_holder = {}
    /\ handlers' = StopRegistered(handlers, streams)
    /\ streams' = EmptyDict
    /\ calls' = [calls EXCEPT ![k].pc = "done"]
    /\ UNCHANGED lock_holder
    /\ UNCHANGED outsideManager

CallIds == 1..MaxCalls

InitManager ==
    /\ clock = 0
    /\ InitScanVars
    /\ InitCooldownVars
    /\ InitOrchVars
    /\ InitRestVars

NextManager ==
    \/ \E op \in ManagerOps, c \in ManagerCameras : Invoke(op, c)
    \/ \E k \in CallIds : AddStreamBegin(k)
    \/ \E k \in CallIds : AddStreamEnd(k)
    \/ \E k \in CallIds : RemoveStream(k)
    \/ \E k \in CallIds : StopAll(k)

SpecManager == InitManager /\ [][NextManager]_vars

RunningHandlers(c) ==
    {id \in DOMAIN handlers : handlers[id].camera = c /\ handlers[id].running}

(* C18: under any interleaving of add_stream, remove_stream and stop_all,
   every handler whose should-run flag is true is the handler registered
   under its camera id (so at most one handler per camera runs, and a
   replaced or removed handler has been stopped), and when add_stream
   returns, the handler it returns is the one registered for the camera. *)
C18_RunningIsRegistered ==
    /\ \A id \in DOMAIN handlers :
          handlers[id].running
              => /\ handlers[id].camera \in DOMAIN streams
                 /\ streams[handlers[id].camera] = id
    /\ \A c \in ManagerCameras : Cardinality(RunningHandlers(c)) <= 1
    /\ \A k \in DOMAIN calls :
          (calls[k].op = "add_stream" /\ calls[k].pc = "done")
              => calls[k].registered = calls[k].returned

C18_Witness ==
    \E h1, h2 \in DOMAIN handlers :
        /\ h1 # h2
        /\ handlers[h1].camera = handlers[h2].camera
        /\ ~handlers[h1].running
        /\ handlers[h2].running
        /\ \E k \in DOMAIN calls :
              /\ calls[k].pc = "done"
              /\ calls[k].returned = {h2}
        /\ \E k \in DOMAIN calls :
              /\ calls[k].pc = "waiting"
              /\ calls[k].op = "remove_stream"
              /\ calls[k].camera = handlers[h2].camera

-----------------------------------------------------------------------------
(* The two detector backends: the YOLODetector singleton (yolo_detector.py)
   and the OWLv2Detector singleton (owlv2_detector.py), and the operations
   that initialise and shut them down.

   A model file is named by its model name (the file is <name>.pt);
   model: {} is None, {name} the loaded model.  A load runs in the default
   executor and the coroutine that asked for it is suspended meanwhile; it
   takes two inputs from the environment: ok (the weights load) and cuda
   (torch.cuda.is_available()).  A call that is suspended in a load stands
   in requests at one of
     "get_init"   get_detector() awaits detector.initialize() (line 501)
     "yolo_init"  a route awaits detector.initialize() after shutdown()
                  (system.py 250, 609)
     "owl_init"   activate_yolo_model awaits owlv2.initialize (system.py 557)
   shutdown(), get_owlv2_detector() and get_detection_service() never
   suspend. *)

MaxDetCalls == 2

DetCallIds == 1..MaxDetCalls

YoloModels == {"yolov8n", "custom"}

Owlv2Models == {"owlv2-base"}

Devices == {"cuda", "cpu"}

(* OWLv2Detector.initialize(model_name), line 91: the test that skips the
   load *)
Owlv2Loaded(o, model_name) ==
    o.initialized /\ o.current_model_name = {model_name}

(* OWLv2Detector.initialize(model_name) once the executor is done, lines
   157-180 *)
Owlv2Initialize(o, model_name, ok) ==
    IF ok
    THEN [o EXCEPT !.model = {model_name}, !.initialized = TRUE,
                   !.current_model_name = {model_name}]
    ELSE o

(* activate_yolo_model, lines 569-580: OWLv2 switched off by hand *)
Owlv2Deactivate(o) ==
    IF o.initialized
    THEN [o EXCEPT !.initialized = FALSE, !.model = {}]
    ELSE o

(* The methods class DetectionService defines (detection_service.py) *)
DetectionServiceMethods ==
    {"__init__", "start", "stop", "_main_loop", "_detection_loop",
     "_get_enabled_classes", "_get_user_settings", "_get_vlm_settings",
     "_process_detections", "_save_frame", "_generate_summary_and_notify",
     "_get_event_type", "_get_severity", "stop_all", "_vlm_safety_scan"}

(* `await detection_service.<name>()`: the attribute lookup raises
   AttributeError when the class defines no such method *)
CallServiceMethod(name) ==
    IF name \in DetectionServiceMethods THEN "returned" ELSE "AttributeError"

(* The response of a route whose last step is
   detection_service.restart_all_detection_loops(): its `except Exception`
   answers 500 *)
RestartResponse ==
    IF CallServiceMethod("restart_all_detection_loops") = "returned"
    THEN 200 ELSE 500

(* A call of a route, of get_detector() or of a loop's setup *)
DetCall(op, model_name, device, exists) ==
    [op |-> op, pc |-> "start", model_name |-> model_name,
     device |-> device, exists |-> exists, path |-> ""]

(* Where a call stands after it ran to its next suspension or to its end
   ("done"), with what it left in the two detectors; response 0: the call
   answers no route *)
Ran(y, o, pc, failed, response) ==
    [yolo |-> y, owlv2 |-> o, pc |-> pc, failed |-> failed,
     response |-> response]

(* What call r does once get_detector() returned the detector:
     get_detector  any other caller: nothing more is modelled
     loop          detection_service.py 123: load_model
     owlv2         system.py 552-568: shutdown() when YOLO is initialised,
                   then owlv2.initialize, which returns at once when the
                   model is loaded already, and the restart of the loops
     yolo          system.py 596-609: the model file is looked up (404 for
                   a custom model that is not there), shutdown(), the new
                   model_path, initialize() *)
AfterGetDetector(r, y, o) ==
    CASE r.op = "get_detector" -> Ran(y, o, "done", FALSE, 0)
      [] r.op = "loop" ->
            Ran(YoloLoadModel(y, r.model_name, r.device), o, "done",
                LoadModelFails(y, r.model_name, r.device), 0)
      [] r.op = "owlv2" ->
            LET y2 == IF y.initialized THEN YoloShutdown(y) ELSE y
            IN IF Owlv2Loaded(o, r.model_name)
               THEN Ran(y2, o, "done", FALSE, RestartResponse)
               ELSE Ran(y2, o, "owl_init", FALSE, 0)
      [] r.op = "yolo" ->
            IF r.model_name # "yolov8n" /\ ~r.exists
            THEN Ran(y, o, "done", TRUE, 404)
            ELSE Ran([YoloShutdown(y) EXCEPT !.model_path = r.model_name],
                     o, "yolo_init", FALSE, 0)

(* Call r from its first line to its first suspension:
     restart  system.py 249-250: shutdown(), then initialize()
     yolo     system.py 582-594: OWLv2 is switched off, then get_detector()
     others   get_detector() first *)
FromStart(r, y, o) ==
    IF r.op = "restart"
    THEN Ran(YoloShutdown(y), o, "yolo_init", FALSE, 0)
    ELSE LET o1 == IF r.op = "yolo" THEN Owlv2Deactivate(o) ELSE o
         IN IF GetDetector(y) = "get_init"
            THEN Ran(y, o1, "get_init", FALSE, 0)
            ELSE AfterGetDetector(r, y, o1)

(* The variables after call id, standing as r, ran as res says.  A call
   that is suspended in initialize() keeps the model file its executor job
   was given. *)
Proceed(id, r, res) ==
    /\ yolo' = res.yolo
    /\ owlv2' = res.owlv2
    /\ load_failed' = (load_failed \/ res.failed)
    /\ last_response' = IF res.response = 0 THEN last_response
                        ELSE res.response
    /\ requests' =
          IF res.pc = "done" THEN DictPop(requests, id)
          ELSE DictPut(requests, id,
                       [r EXCEPT !.pc = res.pc,
                                 !.path = res.yolo.model_path])
    /\ UNCHANGED startup_done
    /\ UNCHANGED outsideDetector

(* A call begins *)
BeginCall(r) ==
    /\ startup_done
    /\ \E id \in DetCallIds :
          /\ id \notin DOMAIN requests
          /\ \A k \in DetCallIds : k < id => k \in DOMAIN requests
          /\ Proceed(id, r, FromStart(r, yolo, owlv2))

(* lifespan, main.py 41-57: settings.ensure_directories() at line 47 raises
   AttributeError before get_detector() at line 57 is reached; the two
   detectors stay as their constructors left them *)
Startup ==
    /\ ~startup_done
    /\ ReadSetting("ensure_directories") = "AttributeError"
    /\ startup_done' = TRUE
    /\ UNCHANGED <<yolo, owlv2, load_failed, last_response, requests>>
    /\ UNCHANGED outsideDetector

(* activate_yolo_model for an OWLv2 model name, system.py 545-560, up to
   its first suspension *)
ActivateOwlv2(model_name) ==
    BeginCall(DetCall("owlv2", model_name, "cuda", TRUE))

(* activate_yolo_model for a YOLO model name, system.py 575-609, up to its
   first suspension; exists: the file of a custom model is there *)
ActivateYolo(model_name, exists) ==
    BeginCall(DetCall("yolo", model_name, "cuda", exists))

(* restart_detector, system.py 240-250: the detector is shut down and
   initialize() is awaited *)
RestartDetector ==
    BeginCall(DetCall("restart", "yolov8n", "cuda", TRUE))

(* Any other caller of get_detector(): the detector status query
   (system.py, line 356), a detection request, ... *)
DetectorQuery ==
    BeginCall(DetCall("get_detector", "yolov8n", "cuda", TRUE))

(* _detection_loop, lines 122-123: a detection loop starts and asks for
   the user's model on the user's device *)
LoopLoadsModel(model_name, device) ==
    BeginCall(DetCall("loop", model_name, device, TRUE))

(* The executor job of an initialize() is done, yolo_detector.py 138-161,
   and the call runs on: get_detector() returns to its caller; a route goes
   on to restart_all_detection_loops() (system.py 254-255, 612-614).  The
   job's thread read self.model_path when it began, which is when the job
   was handed over or later. *)
YoloInitialized(id, ok, cuda, path) ==
    /\ id \in DOMAIN requests
    /\ requests[id].pc \in {"get_init", "yolo_init"}
    /\ path \in {requests[id].path, yolo.model_path}
    /\ LET r == requests[id]
           y == YoloInitialize(yolo, path, ok, cuda)
           res == IF r.pc = "get_init"
                  THEN AfterGetDetector(r, y, owlv2)
                  ELSE Ran(y, owlv2, "done", FALSE, RestartResponse)
       IN Proceed(id, r, [res EXCEPT !.failed = @ \/ ~ok])

(* The executor jobs of owlv2.initialize are done, owlv2_detector.py
   146-180, and the route goes on: restart_all_detection_loops() when the
   model loaded, a 500 when it did not (system.py 559-573) *)
Owlv2Initialized(id, ok) ==
    /\ id \in DOMAIN requests
    /\ requests[id].pc = "owl_init"
    /\ LET r == requests[id]
           o == Owlv2Initialize(owlv2, r.model_name, ok)
       IN Proceed(id, r,
                  Ran(yolo, o, "done", ~ok,
                      IF ok THEN RestartResponse ELSE 500))

InitDetector ==
    /\ clock = 0
    /\ InitScanVars
    /\ InitCooldownVars
    /\ InitOrchVars
    /\ InitRestVars

NextDetector ==
    \/ Startup
    \/ \E m \in Owlv2Models : ActivateOwlv2(m)
    \/ \E m \in YoloModels, exists \in BOOLEAN : ActivateYolo(m, exists)
    \/ RestartDetector
    \/ DetectorQuery
    \/ \E m \in YoloModels, d \in Devices : LoopLoadsModel(m, d)
    \/ \E id \in DetCallIds, ok, cuda \in BOOLEAN, p \in YoloModels :
          YoloInitialized(id, ok, cuda, p)
    \/ \E id \in DetCallIds, ok \in BOOLEAN : Owlv2Initialized(id, ok)

SpecDetector == InitDetector /\ [][NextDetector]_vars
(* C19: in every state after startup exactly one of the two backends is
   initialised.  Stated for the runs in which no model load or lookup has
   failed; the claim asks for it in all runs. *)
C19_ExactlyOneBackend ==
    (startup_done /\ ~load_failed)
        => (yolo.initialized # owlv2.initialized)

-----------------------------------------------------------------------------
(* The iterations of one camera's _detection_loop that read a frame, lines
   154-217, followed from await to await: the detector's output is filtered
   by confidence and by the user's enabled classes and handed to
   _process_detections, which embeds the detections of a class in the Event
   it creates for that class.  The iteration in flight stands at one of:
     "idle"      no frame in hand: awaiting get_frame_async (154) or a sleep
                 (159, 221), or no loop is running
     "classes"   the frame is counted (163) and _get_enabled_classes is
                 awaited (167 on every hundredth frame, and 171)
     "detect"    detector.detect is awaited (176)
     "commit"    _process_detections awaits db.commit for a class group (362)
     "refresh"   the Event is in the table and db.refresh is awaited (363)
     "close"     the session of the insert is being closed (339)
     "settings"  _get_vlm_settings is awaited (207)
     "stopped"   the loop's task was cancelled and the loop is over
   The awaits of one helper call (its query and the close of its session)
   are one place: nothing the iteration touches changes between them. *)

MaxLoopDets == 2

MaxLoopRows == 2

MaxLoopTicks == 2

MaxFrameCount == 3

(* The significance floor of line 185, in percent *)
SignificanceFloor == 50

LoopClassNames == {"person", "Car"}

LoopConfidences == {50, 60, 80}

(* What detector.detect returns in "objects" *)
LoopDetections ==
    [class_name : {"person"}, confidence : LoopConfidences]
        \cup {[class_name |-> "Car", confidence |-> 60]}

DetectorOutputs ==
    UNION {[1..n -> LoopDetections] : n \in 0..MaxLoopDets}

(* The user's enabled classes as _get_enabled_classes returns them, lower
   case; {} is "no filter", also returned when the query fails (241-243) *)
EnabledClassSets == {{}, {"car"}}

(* Line 185 without the condition *)
Significant_NoFloor(dets) == dets

(* Line 185: [d for d in detections if d["confidence"] > 0.5] *)
Significant(dets) ==
    SelectSeq(dets, LAMBDA d : d.confidence > SignificanceFloor)

(* Line 192: the detections whose lower-cased class is enabled *)
EnabledOnly(dets, enabled) ==
    SelectSeq(dets, LAMBDA d : StrLower(d.class_name) \in enabled)

(* Lines 181-196: what reaches _process_detections; <<>> when the iteration
   ends at one of the `continue` statements *)
ToProcess(dets, enabled) ==
    LET significant == Significant(dets) IN
    IF dets = <<>> \/ significant = <<>> THEN <<>>
    ELSE IF enabled # {} THEN EnabledOnly(significant, enabled)
    ELSE significant

(* Lines 343-347: the detections of class k, as embedded in the Event *)
DetectedObjects(dets, k) ==
    SelectSeq(dets, LAMBDA d : d.class_name = k)

(* Lines 323 and 348: max(class_dets, key=confidence), its confidence *)
PrimaryConfidence(class_dets) ==
    CHOOSE m \in {class_dets[i].confidence : i \in 1..Len(class_dets)} :
        \A i \in 1..Len(class_dets) : class_dets[i].confidence <= m

(* History: the pair has a cooldown entry less than the cooldown window old,
   by the clock *)
InsideWindow(cooldown, key, now) ==
    /\ key \in DOMAIN cooldown
    /\ now - cooldown[key] < event_cooldown

(* History: the class groups of the list handed to _process_detections that
   are outside their cooldown window when the pass starts, as the pass
   should report them *)
GroupsDue(dets, c, now) ==
    {[class |-> k,
      detected_objects |-> SelectSeq(dets, LAMBDA d : d.class_name = k),
      confidence_score |->
         CHOOSE m \in {dets[i].confidence : i \in 1..Len(dets)} :
            /\ \E i \in 1..Len(dets) :
                  dets[i].class_name = k /\ dets[i].confidence = m
            /\ \A i \in 1..Len(dets) :
                  dets[i].class_name = k => dets[i].confidence <= m]
        : k \in {dets[i].class_name : i \in 1..Len(dets)
                    } \ {k2 \in LoopClassNames :
                            InsideWindow(last_event_time, <<c, k2>>, now)}}

(* vlm_settings.get("safety_scan_interval", 30) *)
safety_scan_interval == 30

(* Lines 209-212: the safety scan is due *)
ScanDue(c, now) ==
    \/ c \notin DOMAIN last_vlm_scan
    \/ now - last_vlm_scan[c] >= safety_scan_interval

(* History: the record of an iteration that is over; ended says how: at a
   `continue` (181-195), at the bottom of the loop body (215), by an
   exception that reached line 219, or by the cancellation of the task *)
Finished(c, ended, launched) ==
    [happened |-> TRUE, ended |-> ended,
     groups |-> iteration.groups, created |-> iteration.created,
     scan_due |-> ScanDue(c, clock), scan_launched |-> launched,
     passing |-> Len(iteration.dets),
     frame_count |-> frame_count,
     detector_called |-> iteration.pc # "classes"]

(* Lines 154-171: get_frame_async returned a frame, frame_count is
   incremented and the enabled classes are queried *)
IterFrame(c) ==
    /\ iteration.pc = "idle"
    /\ frame_count < MaxFrameCount
    /\ Cardinality(events) < MaxLoopRows
    /\ frame_count' = frame_count + 1
    /\ iteration' = [NoRun EXCEPT !.pc = "classes"]
    /\ last_iter' = NoIteration
    /\ skipped' = {}
    /\ UNCHANGED <<event_objects, last_vlm_scan>>
    /\ UNCHANGED <<clock, last_event_time, events, ticks, passes, scanVars,
                   orchVars>>
    /\ UNCHANGED outsideLoop_Rest

(* Lines 171-176: the enabled classes are back and detector.detect is
   awaited on the frame *)
IterClasses(c, enabled) ==
    /\ iteration.pc = "classes"
    /\ iteration' = [iteration EXCEPT !.pc = "detect", !.enabled = enabled]
    /\ UNCHANGED <<event_objects, last_vlm_scan, last_iter, frame_count>>
    /\ UNCHANGED <<clock, cooldownVars, scanVars, orchVars>>
    /\ UNCHANGED outsideLoop_Rest

(* _process_detections from class group order[i] to its next await, for the
   iteration in hand: the cooldown entries are written, and the call reaches
   db.commit, returns (the VLM settings are queried next, line 207) or
   _save_frame raises, which ends the iteration at line 219 *)
IterRun(c, raw, dets, order, i, now, groups, created, save_fails) ==
    LET r == RunToAwait(order, i,
                 [cooldown |-> last_event_time, skipped |-> {},
                  i |-> i, pc |-> "returned"],
                 c, now, save_fails)
        it == [pc |-> r.pc, enabled |-> iteration.enabled, raw |-> raw,
               dets |-> dets, order |-> order, i |-> r.i, now |-> now,
               groups |-> groups, created |-> created]
    IN /\ last_event_time' = r.cooldown
       /\ skipped' = r.skipped
       /\ IF r.pc = "raised"
          THEN /\ iteration' = NoRun
               /\ last_iter' =
                     [happened |-> TRUE, ended |-> "raised",
                      groups |-> groups, created |-> created,
                      scan_due |-> ScanDue(c, clock),
                      scan_launched |-> FALSE,
                      passing |-> Len(dets),
                      frame_count |-> frame_count,
                      detector_called |-> TRUE]
          ELSE /\ iteration' =
                     [it EXCEPT !.pc = IF r.pc = "commit" THEN "commit"
                                       ELSE "settings"]
               /\ last_iter' = last_iter

(* Lines 176-201 and 300-362: detect returned; nothing passes the filters
   and the loop continues (181-195), or _process_detections is called *)
IterDetected(c, dets, save_fails) ==
    /\ iteration.pc = "detect"
    /\ LET significant == ToProcess(dets, iteration.enabled) IN
       IF significant = <<>>
       THEN /\ iteration' = NoRun
            /\ last_iter' = [Finished(c, "continue", FALSE)
                                EXCEPT !.passing = 0]
            /\ skipped' = {}
            /\ UNCHANGED last_event_time
       ELSE IterRun(c, dets, significant, ClassOrder(significant), 1, clock,
                    GroupsDue(significant, c, clock), <<>>, save_fails)
    /\ UNCHANGED <<event_objects, last_vlm_scan, frame_count>>
    /\ UNCHANGED <<clock, events, ticks, passes, scanVars, orchVars>>
    /\ UNCHANGED outsideLoop_Rest

(* Lines 362-363 and 372: db.commit returns and the Event is in the table
   with the detections of its class embedded (343-348), db.refresh is
   awaited; or db.commit raises, the session is closed and the exception
   caught *)
IterCommit(c, ok) ==
    /\ iteration.pc = "commit"
    /\ LET k == iteration.order[iteration.i]
           e == NewEvent(events, c, k, iteration.now)
           class_dets == DetectedObjects(iteration.dets, k)
       IN IF ok
          THEN /\ events' = events \cup {e}
               /\ event_objects' = event_objects \cup
                     {[event |-> e,
                       detected_objects |-> class_dets,
                       confidence_score |-> PrimaryConfidence(class_dets),
                       below_floor_seen |->
                          \E i \in 1..Len(iteration.raw) :
                              /\ iteration.raw[i].class_name = k
                              /\ iteration.raw[i].confidence
                                     <= SignificanceFloor]}
               /\ iteration' =
                     [iteration EXCEPT
                         !.pc = "refresh",
                         !.created = Append(@,
                             [class |-> k, detected_objects |-> class_dets,
                              confidence_score |->
                                  PrimaryConfidence(class_dets)])]
          ELSE /\ iteration' = [iteration EXCEPT !.pc = "close"]
               /\ UNCHANGED <<events, event_objects>>
    /\ skipped' = {}
    /\ UNCHANGED <<last_vlm_scan, last_iter, frame_count>>
    /\ UNCHANGED <<clock, last_event_time, ticks, passes, scanVars, orchVars>>
    /\ UNCHANGED outsideLoop_Rest

(* Lines 363-370: db.refresh returns and the enrichment task is created, or
   db.refresh raises; the session is being closed *)
IterRefresh(c) ==
    /\ iteration.pc = "refresh"
    /\ iteration' = [iteration EXCEPT !.pc = "close"]
    /\ UNCHANGED <<event_objects, last_vlm_scan, last_iter, frame_count>>
    /\ UNCHANGED <<clock, cooldownVars, scanVars, orchVars>>
    /\ UNCHANGED outsideLoop_Rest

(* Lines 339 and 311-362: the session is closed and the for loop goes on
   with the next class group, with the `now` of line 300 *)
IterSessionClosed(c, save_fails) ==
    /\ iteration.pc = "close"
    /\ IterRun(c, iteration.raw, iteration.dets, iteration.order,
               iteration.i + 1, iteration.now, iteration.groups,
               iteration.created, save_fails)
    /\ UNCHANGED <<event_objects, last_vlm_scan, frame_count>>
    /\ UNCHANGED <<clock, events, ticks, passes, scanVars, orchVars>>
    /\ UNCHANGED outsideLoop_Rest

(* Lines 207-215: the VLM settings are back; when the safety scan is due its
   time is recorded and the scan task created (the scan of SpecScan, whose
   Events embed no detections); the iteration is over *)
IterSettings(c) ==
    /\ iteration.pc = "settings"
    /\ last_vlm_scan' = IF ScanDue(c, clock)
                        THEN DictPut(last_vlm_scan, c, clock)
                        ELSE last_vlm_scan
    /\ last_iter' = Finished(c, "returned", ScanDue(c, clock))
    /\ iteration' = NoRun
    /\ skipped' = {}
    /\ UNCHANGED <<event_objects, frame_count>>
    /\ UNCHANGED <<clock, last_event_time, events, ticks, passes, scanVars,
                   orchVars>>
    /\ UNCHANGED outsideLoop_Rest

(* The loop's task is cancelled at the await of the iteration (lines 92-101,
   63-65): CancelledError ends the loop (217), whatever class groups are
   left *)
IterCancelled(c) ==
    /\ iteration.pc \notin {"idle", "stopped"}
    /\ last_iter' = Finished(c, "cancelled", FALSE)
    /\ iteration' = [NoRun EXCEPT !.pc = "stopped"]
    /\ skipped' = {}
    /\ UNCHANGED <<event_objects, last_vlm_scan, frame_count>>
    /\ UNCHANGED <<clock, last_event_time, events, ticks, passes, scanVars,
                   orchVars>>
    /\ UNCHANGED outsideLoop_Rest

(* _detection_loop, lines 154-217: one iteration that reads a frame, as the
   steps above *)
LoopIteration(c) ==
    \/ IterFrame(c)
    \/ \E enabled \in EnabledClassSets : IterClasses(c, enabled)
    \/ \E dets \in DetectorOutputs, save_fails \in BOOLEAN :
          IterDetected(c, dets, save_fails)
    \/ \E ok \in BOOLEAN : IterCommit(c, ok)
    \/ IterRefresh(c)
    \/ \E save_fails \in BOOLEAN : IterSessionClosed(c, save_fails)
    \/ IterSettings(c)
    \/ IterCancelled(c)

LoopTickSteps == {5, 86400}

(* Time passing, between two iterations or while one awaits *)
LoopTick ==
    \E d \in LoopTickSteps :
        /\ ticks < MaxLoopTicks
        /\ ticks' = ticks + 1
        /\ clock' = clock + d
        /\ skipped' = {}
        /\ UNCHANGED <<last_event_time, events, passes, scanVars, orchVars>>
        /\ UNCHANGED restVars

InitLoop ==
    /\ clock = 0
    /\ InitScanVars
    /\ InitCooldownVars
    /\ InitOrchVars
    /\ InitRestVars

NextLoop ==
    \/ \E c \in Cameras : IterFrame(c)
    \/ \E c \in Cameras, enabled \in EnabledClassSets : IterClasses(c, enabled)
    \/ \E c \in Cameras, dets \in DetectorOutputs, save_fails \in BOOLEAN :
          IterDetected(c, dets, save_fails)
    \/ \E c \in Cameras, ok \in BOOLEAN : IterCommit(c, ok)
    \/ \E c \in Cameras : IterRefresh(c)
    \/ \E c \in Cameras, save_fails \in BOOLEAN : IterSessionClosed(c, save_fails)
    \/ \E c \in Cameras : IterSettings(c)
    \/ \E c \in Cameras : IterCancelled(c)
    \/ LoopTick

SpecLoop == InitLoop /\ [][NextLoop]_vars

(* C20: every detection embedded in an Event created by the Detection Loop
   has a confidence above the significance floor (0.5). *)
C20_ConfidenceFloor ==
    \A eo \in event_objects :
        /\ eo.detected_objects # <<>>
        /\ \A i \in 1..Len(eo.detected_objects) :
              eo.detected_objects[i].confidence > SignificanceFloor

(* An Event was created from an output that also held a detection of the
   same class at the floor; only the one above the floor is in it. *)
C20_Witness ==
    \E eo \in event_objects :
        /\ eo.below_floor_seen
        /\ Len(eo.detected_objects) = 1
        /\ eo.event.class = "person"
        /\ iteration.pc = "refresh"
        /\ \E i \in 1..Len(iteration.raw) :
              iteration.raw[i].confidence = SignificanceFloor

(* C21: on one inference pass every class with passing detections that is
   not in cooldown gets exactly one Event, holding all passing detections
   of that class and no other, with the maximum confidence of the group as
   confidence_score. *)
C21_OneEventPerGroup ==
    last_iter.happened =>
        \A g \in last_iter.groups :
            /\ Cardinality({i \in 1..Len(last_iter.created) :
                               last_iter.created[i].class = g.class}) = 1
            /\ \E i \in 1..Len(last_iter.created) : last_iter.created[i] = g

(* C22: every iteration that reads a frame while the safety scan is due for
   the camera launches a safety scan task, also when the detector found
   nothing or nothing passed the filters. *)
C22_ScanWhenDue ==
    (/\ last_iter.happened
     /\ last_iter.ended \in {"continue", "returned"}
     /\ last_iter.scan_due) => last_iter.scan_launched

(* C23: the loop invokes the detector only on every Nth frame it reads
   (N = 30); the frames in between are discarded without an inference call. *)
C23_InferenceCadence ==
    (last_iter.happened /\ last_iter.detector_called)
        => last_iter.frame_count % 30 = 0

-----------------------------------------------------------------------------
(* The two allow-list filters: YOLODetector.filter_detections and the
   enabled-classes filter of _detection_loop (with _get_enabled_classes). *)

MaxFilterDets == 2

(* settings.yolo_classes_list, the detector's own target_classes *)
target_classes == {"person", "car", "truck", "fire", "smoke", "dog", "cat"}

FilterClassNames == {"person", "Car", "bicycle"}

FilterDetections == [class_name : FilterClassNames, confidence : {60}]

(* Allow-lists as a caller or the user's settings give them *)
AllowLists == {{}, {"Person"}, {"car"}, {"person", "bicycle"}}

FilterInputs ==
    [detections : UNION {[1..n -> FilterDetections] : n \in 0..MaxFilterDets},
     allow : AllowLists]

(* yolo_detector.py lines 401-405: classes = target_classes or
   self.target_classes; the detections whose lower-cased class is among the
   lower-cased classes *)
YoloFilterDetections(detections, allow) ==
    LET classes == IF allow # {} THEN allow ELSE target_classes
        lowered == {StrLower(c) : c \in classes}
    IN SelectSeq(detections, LAMBDA d : StrLower(d.class_name) \in lowered)

(* detection_service.py lines 235-240: the user's enabled classes as a
   lower-case set, the empty set when there are none *)
GetEnabledClasses(allow) == {StrLower(c) : c \in allow}

(* detection_service.py lines 191-196 on the list `significant` *)
LoopFilter(significant, allow) ==
    LET enabled_classes == GetEnabledClasses(allow) IN
    IF enabled_classes # {} THEN EnabledOnly(significant, enabled_classes)
    ELSE significant

(* A call of detector.filter_detections(detections, allow) *)
CallYoloFilter ==
    /\ filter_out = {}
    /\ filter_out' = {[by |-> "yolo",
                       result |-> YoloFilterDetections(filter_in.detections,
                                                       filter_in.allow)]}
    /\ UNCHANGED <<filter_in, outsideFilter>>

(* The enabled-classes filter of one loop iteration *)
CallLoopFilter ==
    /\ filter_out = {}
    /\ filter_out' = {[by |-> "loop",
                       result |-> LoopFilter(filter_in.detections,
                                             filter_in.allow)]}
    /\ UNCHANGED <<filter_in, outsideFilter>>

InitFilter ==
    /\ clock = 0
    /\ InitScanVars
    /\ InitCooldownVars
    /\ InitOrchVars
    /\ InitEnrichVars
    /\ InitStreamVars
    /\ InitManagerVars
    /\ InitDetectorVars
    /\ InitLoopVars
    /\ InitConsumerVars
    /\ InitOwnerVars
    /\ InitProcVars
    /\ filter_in \in FilterInputs
    /\ filter_out = {}

NextFilter ==
    \/ CallYoloFilter
    \/ CallLoopFilter

SpecFilter == InitFilter /\ [][NextFilter]_vars

(* The detections whose class, compared without case, is in the allow-list;
   every detection when the allow-list is empty *)
AllowedOnly(detections, allow) ==
    IF allow = {} THEN detections
    ELSE SelectSeq(detections,
             LAMBDA d : \E c \in allow : StrLower(c) = StrLower(d.class_name))

(* C25: both filters return exactly the detections whose class is in the
   allow-list (case-insensitive), and every detection unchanged when the
   allow-list is empty. *)
C25_AllowListFilter ==
    \A out \in filter_out :
        out.result = AllowedOnly(filter_in.detections, filter_in.allow)

(* C24: DetectionService.restart_all_detection_loops() exists and a call of
   it (restart-detector, model activation) completes without error: no
   restart or activation that reaches the call is answered with a 500. *)
C24_RestartCompletes == last_response # 500

-----------------------------------------------------------------------------
(* One RTSPStreamHandler as StreamManager uses it: started once by the
   add_stream that created it, stopped at most once by the call that
   replaces or removes it. *)

(* add_stream, line 257, on the handler it has just created *)
HandlerStartOnce ==
    /\ ~stopped_ever
    /\ DOMAIN cap_threads = {}
    /\ HandlerStart

(* add_stream line 250, remove_stream line 265, stop_all line 284: stop() on
   the registered handler, which is then replaced or removed *)
HandlerStopOnce ==
    /\ ~stopped_ever
    /\ DOMAIN cap_threads # {}
    /\ HandlerStopBegin

NextLifecycle ==
    \/ HandlerStartOnce
    \/ HandlerStopOnce
    \/ \E joined \in BOOLEAN : HandlerStopJoined(joined)
    \/ HandlerStopEmpty
    \/ HandlerStopGet
    \/ \E t \in ThreadIds : ThreadTop(t)
    \/ \E t \in ThreadIds : ThreadOpen(t)
    \/ \E t \in ThreadIds : ThreadRead(t)
    \/ \E t \in ThreadIds, o \in ReadOutcomes : ThreadReading(t, o)
    \/ \E t \in ThreadIds : ThreadEnqCheck(t)
    \/ \E t \in ThreadIds : ThreadEnqGet(t)
    \/ \E t \in ThreadIds : ThreadEnqPut(t)
    \/ \E t \in ThreadIds : ThreadAfter(t)
    \/ \E t \in ThreadIds : ThreadReconnect(t)
    \/ \E t \in ThreadIds : ThreadExit(t)
    \/ GetFrame
    \/ SourceChanges

SpecLifecycle == InitStream /\ [][NextLifecycle]_vars

(* The capture thread is scheduled and the source does not block for ever;
   the source, the consumers and the caller of stop() are not forced. *)
FairSpecLifecycle ==
    /\ SpecLifecycle
    /\ \A t \in ThreadIds : WF_vars(ThreadStep(t))

(* The edges of the handler state machine, STOPPED aside *)
AllowedEdges ==
    {<<"idle", "connecting">>, <<"connecting", "connected">>,
     <<"connecting", "error">>, <<"connected", "error">>,
     <<"connected", "reconnecting">>, <<"error", "reconnecting">>,
     <<"reconnecting", "connecting">>}

(* C26: the handler state only changes along the edges idle->connecting,
   connecting->connected, connecting->error, connected->error,
   connected->reconnecting, error->reconnecting, reconnecting->connecting
   and, once told to stop, ->stopped; and state error never stays: it is
   followed by reconnecting (should-run true) or by stopped (should-run
   false). *)
C26_StateMachine ==
    /\ [][h_state' # h_state =>
             \/ <<h_state, h_state'>> \in AllowedEdges
             \/ h_state' = "stopped" /\ ~h_running]_vars
    /\ (h_state = "error") ~> (\/ h_state = "reconnecting" /\ h_running
                               \/ h_state = "stopped" /\ ~h_running)

(* The handler is waiting to reconnect after an open that failed (it has
   never been connected), that is, it came here through ERROR. *)
C26_Witness ==
    /\ h_state = "reconnecting"
    /\ h_running
    /\ \E t \in h_thread : cap_threads[t].opens = 0
                              /\ cap_threads[t].pc = "reconnect"

StopReturned == stopped_ever /\ h_stop_pc = "idle"

(* C27: once stop() has returned on a started handler the frame buffer is
   empty and stays empty: no frame is enqueued after the drain. *)
C27_DrainedStaysEmpty ==
    StopReturned => frame_queue = <<>>

(* The poll can still number the tasks it may have to create, one for
   each camera that has a stream (a bound of the model, not of the
   program) *)
TaskIdsLeft ==
    Cardinality(DOMAIN tasks) + Cardinality(StreamedCameras) <= MaxTasks

(* The service is running and camera c has detection enabled and a
   connected stream handler *)
WantsLoop(c) ==
    running /\ detection_enabled[c] /\ stream_connected[c]

(* C28: while the service is running, every camera with detection enabled
   whose stream handler is connected and stays connected eventually has a
   live detection loop task, started by the poll loop (again after the
   previous task has finished), under fairness of the poll loop. *)
C28_LoopEventuallyLive ==
    \A c \in OrchCameras :
        (WantsLoop(c) /\ TaskIdsLeft)
            ~> (LiveTasks(c) # {} \/ ~WantsLoop(c) \/ ~TaskIdsLeft)

(* A camera whose earlier loop task has finished has a live one again. *)
C28_Witness ==
    \E c \in OrchCameras :
        /\ WantsLoop(c)
        /\ LiveTasks(c) # {}
        /\ \E id \in DOMAIN tasks :
              /\ tasks[id].camera = c
              /\ tasks[id].state = "done"
              /\ id \notin LiveTasks(c)
        /\ c \in DOMAIN camera_tasks
        /\ camera_tasks[c] \in LiveTasks(c)

(* The service and its loops with the exceptions of the loops and of
   their background tasks, for cameras whose detection stays enabled *)

(* The next step of loop id, whether it raises or not *)
LoopRuns(id) ==
    \/ LoopStep(id)
    \/ \E place \in {"detect", "save_frame"} : LoopDetectRaises(id, place)
    \/ LoopInsertRaises(id)
    \/ LoopNextSaveRaises(id)

NextFault ==
    \/ Start
    \/ StopBegin
    \/ MainClosed
    \/ StopFinish
    \/ StopIdle
    \/ MainPoll
    \/ MainWake
    \/ \E id \in TaskIds : LoopStep(id)
    \/ \E id \in TaskIds, place \in {"detect", "save_frame"} :
          LoopDetectRaises(id, place)
    \/ \E id \in TaskIds : LoopInsertRaises(id)
    \/ \E id \in TaskIds : LoopNextSaveRaises(id)
    \/ \E b \in BackgroundIds : BackgroundEnds(b)
    \/ \E b \in BackgroundIds : BackgroundRaises(b)
    \/ \E c \in StreamedCameras : StreamChanges(c)

SpecFault == InitOrch /\ [][NextFault]_vars

(* The event loop runs every task that is ready, and frames keep arriving:
   a loop that waits for a frame again and again gets one in the end *)
FairSpecFault ==
    /\ SpecFault
    /\ WF_vars(MainPoll)
    /\ WF_vars(MainWake)
    /\ WF_vars(MainClosed)
    /\ WF_vars(StopFinish)
    /\ \A id \in TaskIds : WF_vars(LoopRuns(id))
    /\ \A id \in TaskIds :
          SF_vars(\E hundredth \in BOOLEAN : LoopFrame(id, hundredth))
    /\ \A b \in BackgroundIds :
          WF_vars(BackgroundEnds(b) \/ BackgroundRaises(b))

(* Task id finishes in this step *)
TaskEnds(id) == tasks[id].state # "done" /\ tasks'[id].state = "done"

(* Task id is cancelled in this step or was cancelled before it: stop() or
   the poll takes it out of _camera_tasks and cancels it, or it was closing
   its session on the way out *)
TaskCancelled(id) ==
    \/ tasks[id].state = "closing"
    \/ \E c \in DOMAIN camera_tasks :
          /\ camera_tasks[c] = id
          /\ c \notin DOMAIN camera_tasks'

(* The places an exception of the loop itself is raised at *)
LoopFaultPlaces == {"detect", "save_frame", "insert"}

(* The places an exception of a background task is raised at *)
BackgroundFaultPlaces == {"enrichment", "safety_scan"}

(* C30: an exception raised while a frame is processed (inference, frame
   save, Event insert) or inside an enrichment or safety-scan task never
   ends the detection loop.  The loop does not finish in the step that
   raises and handles it: after a failed frame save it sleeps, after a
   failed insert it closes the session and goes on, a background task
   leaves it where it was; an exception of the inference is swallowed by
   detect and the loop goes to its next pass, whose test of the running
   flag and of the stream is the only thing that can end it there.  A
   detection loop finishes only when it is cancelled or when that test
   fails.  And while frames keep arriving, the loop reads a later frame
   after the exception, unless it is ended in one of these two ways. *)
C30_FaultKeepsLoop ==
    /\ [](loop_fault.happened =>
             /\ loop_fault.place \in LoopFaultPlaces \cup BackgroundFaultPlaces
             /\ loop_fault.ended => loop_fault.place = "detect")
    /\ [][\A id \in DOMAIN tasks :
             TaskEnds(id) =>
                 \/ TaskCancelled(id)
                 \/ ~LoopTestPasses(tasks[id].camera)]_vars
    /\ (loop_fault.happened /\ ~loop_fault.after)
          ~> /\ loop_fault.happened
             /\ \/ loop_fault.after
                \/ tasks[loop_fault.task].state = "done"

(* A loop whose frame save raised while the service was running and the
   stream connected: it slept, read a later frame and has reached the
   insert of an Event of that frame *)
C30_Witness ==
    /\ loop_fault.happened
    /\ loop_fault.place = "save_frame"
    /\ ~loop_fault.ended
    /\ loop_fault.after
    /\ tasks[loop_fault.task].state = "committing"

-----------------------------------------------------------------------------
(* Two consumers of one handler: the detection loop (get_frame_async, line
   154 of detection_service.py) and the frame_generator of an MJPEG
   response (stream_handler.py 209-215).  Both end in a get of the same
   queue.Queue; the gets of two threads are serialised by the queue's
   mutex. *)

Consumers == {"detection_loop", "frame_generator"}

(* The delivery log after frame f was returned to consumer who *)
Deliver(log, f, who) ==
    DictPut(log, f, IF f \in DOMAIN log THEN Append(log[f], who) ELSE <<who>>)

(* One get_frame / get_frame_async of consumer who: the queue's head, or
   None when the queue is (still) empty *)
ConsumerGet(who) ==
    /\ LET r == QueueGet(frame_queue) IN
       /\ frame_queue' = r.rest
       /\ last_get' = [happened |-> TRUE, returned |-> r.item,
                       newest |-> IF frame_queue = <<>> THEN {}
                                  ELSE {frame_queue[Len(frame_queue)]}]
       /\ delivered' = IF r.item = {} THEN delivered
                       ELSE Deliver(delivered, Head(frame_queue), who)
    /\ UNCHANGED <<h_running, h_state, h_thread, h_stop_pc, cap_threads,
                   source_up, frames_read, stopped_ever, last_arrival>>
    /\ UNCHANGED <<baseVars, enrichVars, managerVars, detectorVars, loopVars,
                   filterVars, ownerVars, procVars>>

(* A handler that is started once and never stopped, read by both
   consumers *)
NextConsumers ==
    \/ HandlerStart
    \/ \E t \in ThreadIds : ThreadTop(t)
    \/ \E t \in ThreadIds : ThreadOpen(t)
    \/ \E t \in ThreadIds : ThreadRead(t)
    \/ \E t \in ThreadIds, o \in ReadOutcomes : ThreadReading(t, o)
    \/ \E t \in ThreadIds : ThreadEnqCheck(t)
    \/ \E t \in ThreadIds : ThreadEnqGet(t)
    \/ \E t \in ThreadIds : ThreadEnqPut(t)
    \/ \E t \in ThreadIds : ThreadAfter(t)
    \/ \E t \in ThreadIds : ThreadReconnect(t)
    \/ \E who \in Consumers : ConsumerGet(who)
    \/ SourceChanges

SpecConsumers == InitStream /\ [][NextConsumers]_vars

FramesOf(who) ==
    {f \in DOMAIN delivered : \E i \in 1..Len(delivered[f]) : delivered[f][i] = who}

(* C36: reading a frame is destructive: every enqueued frame is returned by
   at most one get, so no frame reaches both consumers and each consumer
   gets only frames the other did not get. *)
C36_DestructiveRead ==
    /\ \A f \in DOMAIN delivered : Len(delivered[f]) = 1
    /\ FramesOf("detection_loop") \cap FramesOf("frame_generator") = {}
    /\ DOMAIN delivered \subseteq 1..frames_read

(* Both consumers have read from the handler and each got a frame the other
   did not get *)
C36_Witness ==
    /\ FramesOf("detection_loop") # {}
    /\ FramesOf("frame_generator") # {}
    /\ FramesOf("detection_loop") # DOMAIN delivered
    /\ FramesOf("frame_generator") # DOMAIN delivered

-----------------------------------------------------------------------------
(* Detection loops of cameras that belong to different users.  Every loop
   takes the detector from get_detector(), which returns the one module
   level YOLODetector, and writes its owner's model and confidence into it
   (detection_service.py 116-124). *)

(* A loop of user standing at pc: "get_init" awaiting initialize() inside
   get_detector() (line 122), "running" between two calls of detect,
   "detecting" awaiting the executor inside detect (yolo_detector.py 183).
   path: the model file its initialize() was given.  model, threshold: what
   the detector held when the loop's setup was over (history).  conf, seen:
   the threshold detect read at line 178 and the model the detector held
   when the inference was handed to the executor. *)
OwnerLoop(user, pc, path, model, threshold) ==
    [user |-> user, pc |-> pc, path |-> path, model |-> model,
     threshold |-> threshold, conf |-> 0, seen |-> {}]

(* _detection_loop, lines 123-124, for camera c with the detector as
   get_detector() returned it: load_model for the owner's model and device,
   then the owner's threshold is written into the detector *)
OwnerLoopConfigure(c, y) ==
    LET st == UserDetectionSettings(CameraOwner(c))
        y2 == YoloLoadModel(y, st.model, st.device)
        th == SetThreshold(confidence_threshold, st.confidence)
    IN /\ yolo' = y2
       /\ confidence_threshold' = th
       /\ owner_loops' = DictPut(owner_loops, c,
                             OwnerLoop(CameraOwner(c), "running", "",
                                       y2.model, th))

(* _detection_loop, lines 113-124, for camera c: the owner's settings are
   fetched and the detector is taken from get_detector(), which awaits
   initialize() when the detector is not initialised *)
OwnerLoopSetup(c) ==
    /\ c \notin DOMAIN owner_loops
    /\ IF GetDetector(yolo) = "get_init"
       THEN /\ owner_loops' = DictPut(owner_loops, c,
                                  OwnerLoop(CameraOwner(c), "get_init",
                                            yolo.model_path, {}, 0))
            /\ UNCHANGED <<yolo, confidence_threshold>>
       ELSE OwnerLoopConfigure(c, yolo)
    /\ UNCHANGED <<owlv2, startup_done, load_failed, last_response,
                   requests, last_detect>>
    /\ UNCHANGED outsideDetector_Owner

(* The executor job of initialize() is done (yolo_detector.py 138-161),
   get_detector() returns and the setup runs to its end *)
OwnerLoopInitialized(c, ok, cuda, path) ==
    /\ c \in DOMAIN owner_loops
    /\ owner_loops[c].pc = "get_init"
    /\ path \in {owner_loops[c].path, yolo.model_path}
    /\ OwnerLoopConfigure(c, YoloInitialize(yolo, path, ok, cuda))
    /\ UNCHANGED <<owlv2, startup_done, load_failed, last_response,
                   requests, last_detect>>
    /\ UNCHANGED outsideDetector_Owner

(* _detection_loop line 176 and YOLODetector.detect, lines 174-183:
   without a model detect returns no objects at once; with one it reads
   self.confidence_threshold (178) and hands the inference to the
   executor *)
OwnerLoopDetect(c) ==
    /\ c \in DOMAIN owner_loops
    /\ owner_loops[c].pc = "running"
    /\ IF yolo.initialized /\ yolo.model # {}
       THEN /\ owner_loops' =
                  [owner_loops EXCEPT ![c].pc = "detecting",
                                      ![c].conf = confidence_threshold,
                                      ![c].seen = yolo.model]
            /\ UNCHANGED last_detect
       ELSE /\ last_detect' = NoDetect
            /\ UNCHANGED owner_loops
    /\ UNCHANGED <<confidence_threshold, detectorVars>>
    /\ UNCHANGED outsideDetector_Owner

(* yolo_detector.py 183-186: the executor ran self.model(frame,
   conf=conf_threshold); its thread read self.model when it began, which is
   when the inference was handed over or later.  A model that is gone by
   then raises, and detect returns no objects (222-224). *)
OwnerLoopInferred(c, model) ==
    /\ c \in DOMAIN owner_loops
    /\ owner_loops[c].pc = "detecting"
    /\ model \in {owner_loops[c].seen, yolo.model}
    /\ last_detect' =
          IF model # {}
          THEN [happened |-> TRUE, camera |-> c, model |-> model,
                threshold |-> owner_loops[c].conf]
          ELSE NoDetect
    /\ owner_loops' = [owner_loops EXCEPT ![c].pc = "running"]
    /\ UNCHANGED <<confidence_threshold, detectorVars>>
    /\ UNCHANGED outsideDetector_Owner

(* The loop of camera c ends (its stream went away, it was cancelled) *)
OwnerLoopEnds(c) ==
    /\ c \in DOMAIN owner_loops
    /\ owner_loops' = DictPop(owner_loops, c)
    /\ last_detect' = NoDetect
    /\ UNCHANGED <<confidence_threshold, detectorVars>>
    /\ UNCHANGED outsideDetector_Owner

LoadedModels == {{}} \cup {{m} : m \in YoloModels}

NextOwners ==
    \/ \E c \in OwnerCameras : OwnerLoopSetup(c)
    \/ \E c \in OwnerCameras, ok, cuda \in BOOLEAN, p \in YoloModels :
          OwnerLoopInitialized(c, ok, cuda, p)
    \/ \E c \in OwnerCameras : OwnerLoopDetect(c)
    \/ \E c \in OwnerCameras, m \in LoadedModels : OwnerLoopInferred(c, m)
    \/ \E c \in OwnerCameras : OwnerLoopEnds(c)
SpecOwners == InitDetector /\ [][NextOwners]_vars

(* C37: the model and the threshold applied to a frame of a running loop are
   those the loop's own setup put in place for the camera's owner; the start
   of a loop for a camera of another user does not change them. *)
C37_OwnerSettingsApplied ==
    last_detect.happened
        => /\ last_detect.model = owner_loops[last_detect.camera].model
           /\ last_detect.threshold = owner_loops[last_detect.camera].threshold

-----------------------------------------------------------------------------
(* The alternative path: EventProcessor.process_frame, event_processor.py  *)

(* EventProcessor.__init__, line 36: self._cooldown_seconds *)
cooldown_seconds == 10

MaxProcDets == 2

MaxProcClock == 20

MaxProcCalls == 2

ProcCameras == {1, 2}

ProcCallIds == 1..MaxProcCalls

ProcClassNames == {"person", "Car", "bicycle"}

ProcDetections == [class_name : ProcClassNames, confidence : {60}]

(* What detector.detect returns for one frame: zero to MaxProcDets objects *)
ProcDetectionLists == UNION {[1..n -> ProcDetections] : n \in 0..MaxProcDets}

DetClasses(dets) == {dets[i].class_name : i \in 1..Len(dets)}

(* The classes of a camera whose entry is younger than the cooldown *)
CoolingClasses(le, c, now) ==
    IF c \notin DOMAIN le THEN {}
    ELSE {k \in DOMAIN le[c] : now - le[c][k] < cooldown_seconds}

(* _should_create_event, lines 134-154: true when the camera has no map, or
   when any one detection's class has no entry or an entry at least
   cooldown_seconds old *)
ShouldCreateEvent(le, c, dets, now) ==
    \/ c \notin DOMAIN le
    \/ \E i \in 1..Len(dets) :
          \/ dets[i].class_name \notin DOMAIN le[c]
          \/ now - le[c][dets[i].class_name] >= cooldown_seconds

(* YOLODetector.get_event_type, yolo_detector.py lines 407-412: the default
   argument EventType.CUSTOM is evaluated on every call, and the enum of
   models/event.py (lines 12-37) has the member `custom` only, so the call
   raises AttributeError whatever the class name is *)
GetEventType(class_name) == "AttributeError"

(* process_frame, lines 60-65, with an initialised processor and detector:
   the call suspends in `await self._detector.detect(frame)` *)
ProcessFrameCall(c) ==
    /\ \E id \in ProcCallIds \ DOMAIN proc_calls :
          proc_calls' = DictPut(proc_calls, id, [camera |-> c])
    /\ UNCHANGED <<last_events, last_frame>>
    /\ UNCHANGED outsideProc

(* process_frame, lines 65-82, from the return of detect to the end of the
   call: None for no objects (67-68), for nothing left by filter_detections
   (71-74) and when _should_create_event says no (77-78); otherwise line 82
   calls get_event_type, which raises, and the exception leaves
   process_frame: lines 83-132 (the saves, the summary, the event data,
   _update_cooldown at 123 and the callbacks) are never reached, no event is
   returned and _last_events is never written *)
ProcessFrameDetected(id, objects) ==
    LET c == proc_calls[id].camera
        filtered == YoloFilterDetections(objects, {})
        cooling == CoolingClasses(last_events, c, clock)
        passes_gate == /\ Len(objects) > 0
                       /\ Len(filtered) > 0
                       /\ ShouldCreateEvent(last_events, c, filtered, clock)
        primary == filtered[1]
    IN /\ proc_calls' = DictPop(proc_calls, id)
       /\ last_events' = last_events
       /\ last_frame' =
            [happened |-> TRUE, camera |-> c, cooling |-> cooling,
             classes |-> DetClasses(filtered),
             outcome |-> IF ~passes_gate THEN "none"
                         ELSE GetEventType(primary.class_name),
             returned |-> {}, refreshed |-> {}]
       /\ UNCHANGED outsideProc

(* process_frame as a whole: the call, then what follows the detection *)
ProcessFrame(c, objects) ==
    \/ ProcessFrameCall(c)
    \/ \E id \in DOMAIN proc_calls :
          proc_calls[id].camera = c /\ ProcessFrameDetected(id, objects)

(* Time passing between two frames *)
ProcTick ==
    /\ \E d \in {5, 10} :
          /\ clock + d <= MaxProcClock
          /\ clock' = clock + d
    /\ UNCHANGED <<scanVars, cooldownVars, orchVars, restVars>>

NextProcessor ==
    \/ \E c \in ProcCameras : ProcessFrameCall(c)
    \/ \E id \in DOMAIN proc_calls, objects \in ProcDetectionLists :
          ProcessFrameDetected(id, objects)
    \/ ProcTick

SpecProcessor == InitOrch /\ [][NextProcessor]_vars

(* C39: no event returned by process_frame contains a detection of a class
   that was still inside its 10-second cooldown for that camera when the
   frame was processed, and no such class has its cooldown refreshed; for a
   frame whose detections of target classes are all of classes that have no
   cooldown entry or an expired one, an event is produced and the cooldown
   of each of these classes is refreshed *)
C39_EventOutsideCooldownOnly ==
    last_frame.happened
        => /\ \A ev \in last_frame.returned :
                 \A i \in 1..Len(ev.detected_objects.objects) :
                    ev.detected_objects.objects[i].class_name
                        \notin last_frame.cooling
           /\ last_frame.refreshed \cap last_frame.cooling = {}
           /\ (last_frame.classes # {}
                 /\ last_frame.classes \cap last_frame.cooling = {})
                 => /\ last_frame.returned # {}
                    /\ last_frame.refreshed = last_frame.classes
=============================================================================
